---- MODULE Spec2Model ----
(***************************************************************************)
(* Cycle-time calculation service (src/lambda_function.py).                *)
(*                                                                         *)
(* One process answers a sequence of requests.  Every request runs the     *)
(* pipeline lambda_handler -> get_tool_detail -> parse_description ->      *)
(* get_family -> [calc_prep_time] -> calc_fluting_time and ends with a     *)
(* response, or with an exception that leaves the handler.                 *)
(*                                                                         *)
(* Numbers.  Lengths and diameters are integers in units of 1/10000 inch   *)
(* (or 1/10000 mm before the unit conversion), angles are whole degrees,   *)
(* times are integers in units of 1/10000 minute.  Text that the code      *)
(* parses (dimension texts, flute counts) is kept as text and parsed by    *)
(* the operators below.                                                    *)
(***************************************************************************)
EXTENDS Integers, Sequences, FiniteSets, TLC

\* 4 decimals: round(float(cut_dia), 4), round(dimension / 25.4, 4)
Scale == 10000

\* The context handles a process is invoked with: None (0) and 1..NumContexts.
NumContexts == 2

None == 0

Contexts == 0..NumContexts

\* MM_CUTOFF = 20.0
MM_CUTOFF == 200000

ROUTER_FAM == {"WR", "O-FLUTE", "WR COMP"}

STATUS_CODE ==
  {101, 102, 104, 105, 106, 107, 108,
   200, 201, 202, 203, 204, 205, 206, 207, 208, 209, 210, 211,
   301, 302, 303, 304, 305, 306, 307, 308,
   401, 404, 500, 900}

(***************************************************************************)
(* Arithmetic helpers.                                                     *)
(***************************************************************************)
Abs(x) == IF x < 0 THEN -x ELSE x

Min2(a, b) == IF a <= b THEN a ELSE b

\* round(a / b) for b > 0, halves away from zero
RoundDiv(a, b) ==
  IF a >= 0 THEN (2 * a + b) \div (2 * b)
  ELSE -((2 * (-a) + b) \div (2 * b))

\* floor(a * b / c) for a, b >= 0, c > 0, without forming a * b
MulDiv(a, b, c) == (a \div c) * b + ((a % c) * b) \div c

\* round(t, 3) of a time kept in 1/10000 minute
Round3(t) == RoundDiv(t, 10) * 10

RECURSIVE SumSeq(_)
SumSeq(s) == IF s = <<>> THEN 0 ELSE Head(s) + SumSeq(Tail(s))

Range(s) == {s[i] : i \in DOMAIN s}

\* the elements of s that satisfy Test, in order
RECURSIVE SelectSeqIdx(_, _)
SelectSeqIdx(s, keep) ==
  IF s = <<>> THEN <<>>
  ELSE (IF Head(keep) THEN <<Head(s)>> ELSE <<>>) \o SelectSeqIdx(Tail(s), Tail(keep))

(***************************************************************************)
(* Number texts: what eval() and float() make of a dimension text.         *)
(*   "0.25"  -> Dec(2500)      "1/2" -> Frac(1, 2)                         *)
(*   "1-1/2" -> Mixed(1, 1, 2) ""    -> EmptyText                          *)
(* A float held in a field prints as its decimal text.                     *)
(***************************************************************************)
Dec(v) == [form |-> "dec", w |-> 0, n |-> v, d |-> Scale]

Frac(n, d) == [form |-> "frac", w |-> 0, n |-> n, d |-> d]

Mixed(w, n, d) == [form |-> "mixed", w |-> w, n |-> n, d |-> d]

EmptyText == [form |-> "empty", w |-> 0, n |-> 0, d |-> 1]

\* the key is not in the event
Absent == [form |-> "absent", w |-> 0, n |-> 0, d |-> 1]

\* eval(text.replace("-", "+")): "" is a SyntaxError
EvalOk(t) == t.form \in {"dec", "frac", "mixed"}

EvalNum(t) ==
  IF t.form = "dec" THEN t.n ELSE t.w * Scale + (t.n * Scale) \div t.d

\* float(text): only a decimal text converts; "1/2" and "" raise ValueError
FloatOk(t) == t.form = "dec"

\* "/" in text
HasSlash(t) == t.form \in {"frac", "mixed"}

(***************************************************************************)
(* Reference data.  The taxonomy document ("Tool Type.json") and the rate  *)
(* workbook ("Data.xlsx") are files outside the source tree; the model     *)
(* carries a small document of the shape the code reads.  A tool type is   *)
(* a phrase, i.e. a sequence of words.                                     *)
(***************************************************************************)
JSON_DICT_NAME == "tool_types"

Json ==
  [tool_types |->
     [EM |-> << <<"EM">>, <<"DRILLMILL">>, <<"MINI-MILL">>, <<"V4", "EM">> >>,
      BUR |-> << <<"OVAL">>, <<"CYLINDER">>, <<"FLAME">>, <<"COUNTERSINK">> >>,
      DRILL |-> << <<"DRILL">>, <<"REAMER">>, <<"REAMER", "ENDCUT">> >>,
      FBGR |-> << <<"FISHTAIL", "FBGR">> >>,
      WR |-> << <<"WR">>, <<"WR", "ENDCUT">> >>,
      O_FLUTE |-> <<>>,
      WR_COMP |-> <<>>,
      bur_cut_types |-> << <<"DC">>, <<"SC">>, <<"FM">> >>,
      em_shapes |-> << <<"SQ">>, <<"BALL">>, <<"CR">> >>,
      extras |-> << <<"DE">>, <<"SPIRAL">>, <<"MF">> >>,
      wr_cut |-> << <<"UPCUT">> >>,
      has_end_time |-> << <<"ENDCUT">> >>],
   abbreviations |->
     [DOUBLECUT |-> "DC", SINGLECUT |-> "SC", SQUARE |-> "SQ", ENDMILL |-> "EM"],
   perf_series |-> <<"V4", "AX">>,
   prep |->
     [fr_prep |-> [dia_cutoff1 |-> 2362, prep_dia_inc1 |-> 100,
                   dia_cutoff2 |-> 300, prep_dia_inc2 |-> 50, prep_dia_inc3 |-> 20],
      backtaper_prep |-> [tools |-> {"REAMER"}, rate |-> 254],
      bur_neck_prep |-> [included_prep_angle |-> 14],
      point_prep |-> [tools |-> {"SPOTTING"}, tip_pct |-> 30,
                      drill_pct |-> 40, drill_countersink_pct |-> 50],
      drill_prep |-> [point_prep_dia_cutoff |-> 5000],
      ball_prep |-> [dia_cutoff |-> 5000, dia_ref_1 |-> 1250, loc_ref_1 |-> 2500,
                     dia_ref_2 |-> 2500, loc_ref_2 |-> 5000],
      cr_prep |-> [dia_cutoff |-> 2500, cut_pct |-> 20],
      bumping_prep |-> [length_cutoff |-> 127000]]]

\* the keys of tool_types; key.islower() holds of the last five
ToolTypeKeys ==
  <<"EM", "BUR", "DRILL", "FBGR", "WR", "O_FLUTE", "WR_COMP",
    "bur_cut_types", "em_shapes", "extras", "wr_cut", "has_end_time">>

IsLowerKey(key) ==
  key \in {"bur_cut_types", "em_shapes", "extras", "wr_cut", "has_end_time"}

\* sheet "SQ EM": rows in sheet order; rates in 1/10000 inch per minute,
\* end/gash constants in 1/10000 inch per minute, split in 1/10000 minute
SheetEM ==
  << [min_diameter |-> 100, max_diameter |-> 2500, bur_type |-> <<>>,
      sc_fluting |-> 0, dc_fluting |-> 0,
      fluting_fr |-> 20000, od_fr |-> 40000, end_ct |-> 10000,
      end_gash_ct |-> 20000, end_split_ct |-> 2500],
     [min_diameter |-> 2500, max_diameter |-> 5000, bur_type |-> <<>>,
      sc_fluting |-> 0, dc_fluting |-> 0,
      fluting_fr |-> 10000, od_fr |-> 20000, end_ct |-> 5000,
      end_gash_ct |-> 10000, end_split_ct |-> 5000],
     [min_diameter |-> 5000, max_diameter |-> 8500, bur_type |-> <<>>,
      sc_fluting |-> 0, dc_fluting |-> 0,
      fluting_fr |-> 5000, od_fr |-> 10000, end_ct |-> 2500,
      end_gash_ct |-> 5000, end_split_ct |-> 10000] >>

\* sheet "BUR": sc/dc rates in 1/10000 minute per inch of cut and flute
SheetBUR ==
  << [min_diameter |-> 100, max_diameter |-> 2500, bur_type |-> <<"CYLINDER", "NOENDCUT">>,
      sc_fluting |-> 5000, dc_fluting |-> 2000,
      fluting_fr |-> 20000, od_fr |-> 40000, end_ct |-> 10000,
      end_gash_ct |-> 20000, end_split_ct |-> 2500],
     [min_diameter |-> 100, max_diameter |-> 2500, bur_type |-> <<"OVAL">>,
      sc_fluting |-> 7000, dc_fluting |-> 3000,
      fluting_fr |-> 20000, od_fr |-> 40000, end_ct |-> 10000,
      end_gash_ct |-> 20000, end_split_ct |-> 2500],
     [min_diameter |-> 2500, max_diameter |-> 5000, bur_type |-> <<"OVAL">>,
      sc_fluting |-> 9000, dc_fluting |-> 4000,
      fluting_fr |-> 10000, od_fr |-> 20000, end_ct |-> 5000,
      end_gash_ct |-> 10000, end_split_ct |-> 5000],
     [min_diameter |-> 100, max_diameter |-> 5000, bur_type |-> <<"CYLINDER">>,
      sc_fluting |-> 0, dc_fluting |-> 0,
      fluting_fr |-> 20000, od_fr |-> 40000, end_ct |-> 10000,
      end_gash_ct |-> 20000, end_split_ct |-> 0],
     [min_diameter |-> 5000, max_diameter |-> 10000, bur_type |-> <<"CYLINDER">>,
      sc_fluting |-> 0, dc_fluting |-> 0,
      fluting_fr |-> 10000, od_fr |-> 20000, end_ct |-> 5000,
      end_gash_ct |-> 10000, end_split_ct |-> 1500] >>

(***************************************************************************)
(* Descriptions.  A description is a sequence of tokens separated by       *)
(* blanks.  A token is a word, or one of the texts the regular expressions *)
(* of parse_description look for:                                          *)
(*   FL(2)            "2FL"           r'\d+FL'                             *)
(*   DIM(<<a,b,c>>)   "aXbXc"         r'\d+X\d+' or r'\d+X.\d+'            *)
(*   DEG(14)          "14°"           r'\d+°'                              *)
(*   NECK(x,y,d,t)    "x[°]Xy [TAPERED]NECK"   neck_pattern (two words)    *)
(*   CRV(x,mm)        "x[MM] CR"      cr_pattern (two words)               *)
(***************************************************************************)
NoSegs == <<>>

W(w) == [k |-> "w", w |-> w, n |-> 0, x |-> EmptyText, y |-> EmptyText,
         segs |-> NoSegs, deg |-> FALSE, tap |-> FALSE]

FL(n) == [k |-> "fl", w |-> "", n |-> n, x |-> EmptyText, y |-> EmptyText,
          segs |-> NoSegs, deg |-> FALSE, tap |-> FALSE]

DIM(segs) == [k |-> "dim", w |-> "", n |-> 0, x |-> EmptyText, y |-> EmptyText,
              segs |-> segs, deg |-> FALSE, tap |-> FALSE]

DEG(n) == [k |-> "deg", w |-> "", n |-> n, x |-> EmptyText, y |-> EmptyText,
           segs |-> NoSegs, deg |-> TRUE, tap |-> FALSE]

NECK(x, y, deg, tap) == [k |-> "neck", w |-> "", n |-> 0, x |-> x, y |-> y,
                         segs |-> NoSegs, deg |-> deg, tap |-> tap]

CRV(x, mm) == [k |-> "crv", w |-> "CR", n |-> 0, x |-> x, y |-> EmptyText,
               segs |-> NoSegs, deg |-> FALSE, tap |-> mm]

\* sub occurs inside word as a proper substring (vocabulary of the model)
SubstrOf ==
  {<<"DRILL", "DRILLMILL">>, <<"MILL", "DRILLMILL">>,
   <<"DRILL", "DRILL&COUNTERSINK">>, <<"COUNTERSINK", "DRILL&COUNTERSINK">>,
   <<"FL", "O-FLUTE">>, <<"FL", "W/FLAT">>, <<"FL", "STRFL">>,
   <<"NECK", "TAPEREDNECK">>, <<"MILL", "MINI-MILL">>, <<"MILL", "TAPERMILL">>,
   <<"DE", "DETAIL">>, <<"CUT", "ENDCUT">>, <<"CUT", "UPCUT">>, <<"CUT", "NOENDCUT">>,
   <<"ENDCUT", "NOENDCUT">>, <<"EM", "REAMER">>, <<"CB", "CBX">>}

\* the text token t contains the characters of word w
TokHas(t, w) ==
  \/ t.k = "w" /\ (t.w = w \/ <<w, t.w>> \in SubstrOf)
  \/ t.k = "fl" /\ w = "FL"
  \/ t.k = "neck" /\ (w = "NECK" \/ (t.tap /\ w \in {"TAPEREDNECK", "TAPERED"}))
  \/ t.k = "crv" /\ (w = "CR" \/ (t.tap /\ w = "MM"))

\* `w in description` for a description string
InStr(w, desc) == \E i \in DOMAIN desc : TokHas(desc[i], w)

\* `w in description.split(" ")`; a neck text splits into "...X..." and "NECK"
InSplit(w, desc) ==
  \E i \in DOMAIN desc :
    \/ desc[i].k = "w" /\ desc[i].w = w
    \/ desc[i].k = "neck" /\ w = (IF desc[i].tap THEN "TAPEREDNECK" ELSE "NECK")
    \/ desc[i].k = "crv" /\ w = "CR"

\* the words of a description that are plain words, in order ("x CR" gives "CR")
WordsOf(desc) ==
  [i \in 1..Len(SelectSeq(desc, LAMBDA t : t.k \in {"w", "crv"})) |->
     SelectSeq(desc, LAMBDA t : t.k \in {"w", "crv"})[i].w]

\* the phrase (a sequence of words) occurs in the string made of the words ws
RECURSIVE IsPrefix(_, _)
IsPrefix(p, s) ==
  \/ p = <<>>
  \/ s # <<>> /\ Head(p) = Head(s) /\ IsPrefix(Tail(p), Tail(s))

PhraseIn(p, ws) ==
  IF Len(p) = 1
  THEN \E i \in DOMAIN ws : ws[i] = p[1] \/ <<p[1], ws[i]>> \in SubstrOf
  ELSE \E i \in 0..(Len(ws) - Len(p)) : IsPrefix(p, SubSeq(ws, i + 1, Len(ws)))

(***************************************************************************)
(* get_json_from_layer: the lists built from the taxonomy document.        *)
(***************************************************************************)
JT == Json.tool_types

\* f"{shape} {item}" for the EM items other than the two excluded ones
EmCombined ==
  {sh \o it : sh \in Range(JT.em_shapes),
              it \in {x \in Range(JT.EM) :
                        x \notin {<<"DRILLMILL">>, <<"STAGGERED", "TOOTH", "CHAMFERING">>}}}

OFluteCombined ==
  {<<"O-FLUTE">> \o it : it \in Range(JT.WR)} \cup {<<"OFX">> \o it : it \in Range(JT.WR)}

WrCompCombined ==
  {<<"MORT", "COMP">> \o it : it \in Range(JT.WR)} \cup {<<"COMP">> \o it : it \in Range(JT.WR)}

tool_types_list ==
  EmCombined \cup Range(JT.WR) \cup OFluteCombined \cup WrCompCombined
    \cup (Range(JT.EM) \cap {<<"DRILLMILL">>, <<"STAGGERED", "TOOTH", "CHAMFERING">>})
    \cup Range(JT.BUR) \cup Range(JT.DRILL) \cup Range(JT.FBGR)
    \cup Range(JT.O_FLUTE) \cup Range(JT.WR_COMP)

\* every word of every item of every key
split_tool_type_list ==
  UNION {Range(it) : it \in UNION {Range(JT[key]) : key \in Range(ToolTypeKeys)}}

\* json_content[JSON_DICT_NAME][key] after the union with temp_dict[key]
EM_LIST == Range(JT.EM) \cup EmCombined

WR_LIST == Range(JT.WR)

O_FLUTE_LIST == Range(JT.O_FLUTE) \cup OFluteCombined

WR_COMP_LIST == Range(JT.WR_COMP) \cup WrCompCombined

BUR_LIST == Range(JT.BUR)

DRILL_LIST == Range(JT.DRILL)

FBGR_LIST == Range(JT.FBGR)

\* single words
BUR_CUT_LIST == [i \in DOMAIN JT.bur_cut_types |-> JT.bur_cut_types[i][1]]

extras == {it[1] : it \in Range(JT.extras)}

wr_cut == {it[1] : it \in Range(JT.wr_cut)}

HAS_END_TIME == {it[1] : it \in Range(JT.has_end_time)}

abbrev_dict == Json.abbreviations

AbbrevKeys == DOMAIN abbrev_dict

AbbrevValues == {abbrev_dict[k] : k \in AbbrevKeys}

(***************************************************************************)
(* Requests.  An event carries the four dimension fields (a number text,   *)
(* or absent), the flute count (a text, as a sequence of characters), the  *)
(* description, the option tokens and the keyword arguments in the order   *)
(* of the mapping.  `missing` names the keys the event does not have.      *)
(***************************************************************************)
Ev(desc, dims, fl, args, kwargs, missing) ==
  [Diameter |-> dims[1], LOC |-> dims[2], ShankDiameter |-> dims[3], OAL |-> dims[4],
   FluteCount |-> fl, Description |-> desc, args |-> args, kwargs |-> kwargs,
   missing |-> missing]

\* the key "kwargs" holding a value that is no mapping (a list, a string)
NotAMapping == <<[k |-> "", str |-> "not a mapping", segs |-> <<>>]>>

\* one keyword argument: key, and its value as a string or as number texts
Kw(k, str, segs) == [k |-> k, str |-> str, segs |-> segs]

(***************************************************************************)
(* ContentDict: what every stage returns.  An error message is the text of *)
(* STATUS_CODE[code] plus what the stage appends to it.                    *)
(***************************************************************************)
Msg(code, note) == <<code, note>>

ContentDict(status_code, error_msg, fn) ==
  [status_code |-> status_code, error_msg |-> error_msg, function |-> fn]

(***************************************************************************)
(* find_height_tan.  tan(radians(90 - angle/2)) in 1/10000 for the         *)
(* included angles of the model; 90 - 90/2 = 45 is the special case.  For  *)
(* the angle 0 the floating point value of tan(radians(90.0)) is 1.6e16:   *)
(* no error, a length beyond every tool; the model keeps 10000 for it.     *)
(***************************************************************************)
TanComplement(angle) ==
  CASE angle = 0 -> 100000000
    [] angle = 10 -> 114301
    [] angle = 14 -> 81443
    [] angle = 45 -> 24142
    [] angle = 60 -> 17321
    [] angle = 82 -> 11504
    [] angle = 90 -> 10000
    [] angle = 118 -> 6009
    [] OTHER -> 5774

find_height_tan(angle, dia) == MulDiv(TanComplement(angle), dia, 2 * Scale)

(***************************************************************************)
(* parse_description, on tokens.                                           *)
(***************************************************************************)
\* "RADIUS CONE" / "POINTED CONE" without "INCLUDED": the word is inserted
RECURSIVE InsertIncluded(_)
InsertIncluded(desc) ==
  IF Len(desc) < 2 THEN desc
  ELSE IF /\ desc[1].k = "w" /\ desc[1].w \in {"RADIUS", "POINTED"}
          /\ desc[2].k = "w" /\ desc[2].w = "CONE"
       THEN <<W("INCLUDED"), desc[1], desc[2]>> \o InsertIncluded(SubSeq(desc, 3, Len(desc)))
       ELSE <<desc[1]>> \o InsertIncluded(Tail(desc))

FixIncluded(desc) ==
  IF /\ \E i \in 1..(Len(desc) - 1) :
          /\ desc[i].k = "w" /\ desc[i].w \in {"RADIUS", "POINTED"}
          /\ desc[i + 1].k = "w" /\ desc[i + 1].w = "CONE"
     /\ ~InStr("INCLUDED", desc)
  THEN InsertIncluded(desc)
  ELSE desc

\* one pass of description.replace(key, value) over every abbreviation
AbbrevPass(desc) ==
  [i \in DOMAIN desc |->
     IF desc[i].k = "w" /\ desc[i].w \in AbbrevKeys
     THEN W(abbrev_dict[desc[i].w]) ELSE desc[i]]

\* remove duplicate words, keeping the first occurrence and the order
RECURSIVE DedupFrom(_, _)
DedupFrom(desc, seen) ==
  IF desc = <<>> THEN <<>>
  ELSE IF Head(desc) \in seen THEN DedupFrom(Tail(desc), seen)
       ELSE <<Head(desc)>> \o DedupFrom(Tail(desc), seen \cup {Head(desc)})

\* "2FL " is put in front of SPADE / SPOTTING / DRILL&COUNTERSINK without "FL"
AddDefaultFlutes(desc) ==
  IF /\ \E m \in {"SPADE", "SPOTTING", "DRILL&COUNTERSINK"} : InStr(m, desc)
     /\ ~InStr("FL", desc)
  THEN <<FL(2)>> \o desc
  ELSE desc

\* lines 527-565: the description as stored in tool.tool_description
NormalizeDescription(desc) ==
  AddDefaultFlutes(DedupFrom(AbbrevPass(AbbrevPass(FixIncluded(desc))), {}))

\* re.search(neck_pattern, description): index of the first match, 0 if none
NeckIndex(desc) ==
  IF \E i \in DOMAIN desc : desc[i].k = "neck"
  THEN CHOOSE i \in DOMAIN desc :
         desc[i].k = "neck" /\ \A j \in 1..(i - 1) : desc[j].k # "neck"
  ELSE 0

\* lines 573-581: the evals of the matched neck text succeed
NeckEvalOk(t) ==
  /\ EvalOk(t.x) /\ EvalOk(t.y)
  /\ IF t.deg THEN t.tap ELSE ~t.tap

\* description.replace(match, "").split(" "): the two blanks around the
\* removed text leave one empty word in its place
RemoveAt(desc, i) ==
  IF i = 0 THEN desc ELSE [desc EXCEPT ![i] = W("")]

\* int(text) of a text given as a sequence of characters
Digits == {"0", "1", "2", "3", "4", "5", "6", "7", "8", "9"}

DigitVal(c) == CHOOSE n \in 0..9 : ToString(n) = c

IntOk(text) == text # <<>> /\ \A i \in DOMAIN text : text[i] \in Digits

RECURSIVE IntVal(_)
IntVal(text) ==
  IF text = <<>> THEN 0
  ELSE 10 * IntVal(SubSeq(text, 1, Len(text) - 1)) + DigitVal(text[Len(text)])

\* the decimal text of a natural number
RECURSIVE DigitsOf(_)
DigitsOf(n) ==
  IF n < 10 THEN <<ToString(n)>> ELSE DigitsOf(n \div 10) \o <<ToString(n % 10)>>

\* variant: the count of the request is kept whatever the description says
KeepRequestCount(desc, found) == found

\* the flute count text of the last r'\d+FL' word, `found` if there is none
RECURSIVE LastFluteToken(_, _)
LastFluteToken(desc, found) ==
  IF desc = <<>> THEN found
  ELSE LastFluteToken(Tail(desc),
         IF Head(desc).k = "fl" THEN DigitsOf(Head(desc).n) ELSE found)

\* the word of a token as the loop sees it, with "°" removed
LoopWord(t) == IF t.k = "w" THEN t.w ELSE ""

InFormatted(t) ==
  t.k \in {"w", "crv"} /\ (t.w \in split_tool_type_list \/ t.w \in AbbrevValues)

InBase(t) ==
  /\ InFormatted(t)
  /\ t.w \notin Range(BUR_CUT_LIST) /\ t.w \notin extras /\ t.w \notin wr_cut

\* formatted_description and base_description, as sequences of words
FormattedOf(split) == WordsOf(SelectSeq(split, InFormatted))

BaseOf(split) == WordsOf(SelectSeq(split, InBase))

\* what parse_description hands back: a ContentDict and the tool, or an
\* exception that leaves the function (raised)
PdReturn(tool, code, note) ==
  [status_code |-> code, error_msg |-> Msg(code, note), raised |-> FALSE, tool |-> tool]

PdRaise(tool, what) ==
  [status_code |-> 0, error_msg |-> Msg(0, what), raised |-> TRUE, tool |-> tool]

\* convert_from_mm
convert_from_mm(dimension) ==
  IF dimension = 0 THEN 0 ELSE RoundDiv(dimension * 10, 254)

\* the float/int attributes that can be non-zero when attribute_list is built
NumericAttrs ==
  {"cut_diameter", "length_of_cut", "shank_diameter", "overall_length",
   "flute_length", "tip_diameter", "tip_length", "pilot_length", "corner_radius",
   "neck_diameter", "neck_length", "tapered_neck_diameter"}

\* variant: the conversion is applied a second time
ConvertAttrsTwice(tool) ==
  [f \in DOMAIN tool |->
     IF f \in NumericAttrs THEN convert_from_mm(convert_from_mm(tool[f])) ELSE tool[f]]

\* lines 762-779: every attribute of attribute_list through convert_from_mm
ConvertAttrs(tool) ==
  [f \in DOMAIN tool |->
     IF f \in NumericAttrs THEN convert_from_mm(tool[f]) ELSE tool[f]]

\* lines 658-688: the values taken from the dimension text, inside the try
DimsEvalOk(segs) ==
  LET x_cnt == Len(segs) - 1 IN
  /\ EvalOk(segs[x_cnt + 1]) /\ EvalOk(segs[1])
  /\ (x_cnt = 2 => EvalOk(segs[2]))
  /\ (x_cnt = 3 => EvalOk(segs[2]) /\ EvalOk(segs[3]))
  /\ (x_cnt = 4 => EvalOk(segs[2]) /\ EvalOk(segs[4]))

\* split_description.index(word) of token i: "x CR" counts as two words
RECURSIVE WordIndex(_, _)
WordIndex(split, i) ==
  IF i <= 1 THEN 0
  ELSE WordIndex(split, i - 1) + (IF split[i - 1].k = "crv" THEN 2 ELSE 1)

\* lines 695-706: the angle of the first r'\d+°' word whose index is <= 2, or 0
MainAngleOf(split) ==
  IF \E i \in DOMAIN split : split[i].k = "deg" /\ WordIndex(split, i) <= 2
  THEN split[CHOOSE i \in DOMAIN split :
               /\ split[i].k = "deg" /\ WordIndex(split, i) <= 2
               /\ \A j \in 1..(i - 1) : split[j].k # "deg"].n
  ELSE 0

\* lines 591-612: re.search(cr_pattern, description).  "x CR" and "xMM CR"
\* match; so does the last number of a dimension text that stands before "CR"
CrIsMatch(desc, i) ==
  \/ desc[i].k = "crv"
  \/ /\ desc[i].k = "w" /\ desc[i].w = "CR" /\ i > 1
     /\ desc[i - 1].k = "dim" /\ EvalOk(desc[i - 1].segs[Len(desc[i - 1].segs)])

CrMatch(desc) ==
  IF \E i \in DOMAIN desc : CrIsMatch(desc, i)
  THEN LET i == CHOOSE i \in DOMAIN desc :
                  CrIsMatch(desc, i) /\ \A j \in 1..(i - 1) : ~CrIsMatch(desc, j)
           last == desc[i - 1].segs[Len(desc[i - 1].segs)]
       IN [found |-> TRUE,
           mm |-> desc[i].k = "crv" /\ desc[i].tap,
           cr |-> IF desc[i].k = "crv" THEN EvalNum(desc[i].x)
                  ELSE IF last.form = "dec" THEN last.n ELSE last.d * Scale]
  ELSE [found |-> FALSE, mm |-> FALSE, cr |-> 0]

\* lines 725-751, the COUNTERSINK block; d.* are the locals of the function
Countersink(tool, d) ==
  LET drill == "DRILL" \in Range(d.description)
                 \/ \E w \in Range(d.description) : <<"DRILL", w>> \in SubstrOf
      appended == d.fl_cnt_cs /\ ~drill
      description == IF appended
                     THEN d.description \o <<"~", "90", "INCLUDED", "CONE", "FM">>
                     ELSE d.description
      t1 == IF appended
            THEN [tool EXCEPT !.tool_description = [i \in DOMAIN description |-> W(description[i])]]
            ELSE tool
      fl_int == IF IntOk(d.fl_cnt) THEN IntVal(d.fl_cnt) ELSE -1
      multiplier == IF drill THEN (IF d.shank_dia >= 5000 THEN 32 ELSE 40)
                    ELSE IF fl_int = 1 THEN 23 ELSE 15
      dia == IF drill THEN d.shank_dia ELSE d.cut_dia
      flute_length == (find_height_tan(d.main_angle, dia) * multiplier) \div 10
      t2 == [t1 EXCEPT
               !.pilot_length = IF drill THEN d.cut_dia + MulDiv(d.cut_dia, 10000, 33286) - 100
                                ELSE @,
               !.flute_length = flute_length,
               !.length_of_cut = IF d.loc_falsy THEN flute_length ELSE @]
  IN
  IF d.main_angle = 0
  THEN [raised |-> FALSE, status_code |-> 308, tool |-> t1, description |-> description]
  ELSE IF ~drill /\ fl_int < 0
       THEN [raised |-> TRUE, status_code |-> 0, tool |-> t1, description |-> description]
       ELSE [raised |-> FALSE, status_code |-> 900, tool |-> t2, description |-> description]

\* lines 692-783: the main angle, the type check, the countersink block, the
\* check of the attributes and the conversion from mm
PdFinish(t3, using_mm, split_description, neck_angle, fl_cnt) ==
  LET formatted == FormattedOf(split_description)
      base_description == BaseOf(split_description)
      main_angle == MainAngleOf(split_description)
      is_cs == \E w \in Range(formatted) : w = "COUNTERSINK" \/ <<"COUNTERSINK", w>> \in SubstrOf
      cs == IF is_cs
            THEN Countersink(t3,
                   [description |-> formatted,
                    fl_cnt_cs |-> \E i \in DOMAIN split_description :
                                    split_description[i].k = "fl",
                    fl_cnt |-> fl_cnt, main_angle |-> main_angle,
                    shank_dia |-> t3.shank_diameter, cut_dia |-> t3.cut_diameter,
                    loc_falsy |-> (t3.length_of_cut = 0)])
            ELSE [raised |-> FALSE, status_code |-> 900, tool |-> t3,
                  description |-> formatted]
      t5 == [cs.tool EXCEPT !.formatted_description = base_description,
                            !.bur_description = cs.description]
      t6 == [t5 EXCEPT !.main_angle = IF main_angle # 0 THEN main_angle ELSE @,
                       !.tapered_neck_angle = IF neck_angle # 0 THEN neck_angle ELSE @]
  IN
  IF base_description \notin tool_types_list THEN PdReturn(t3, 104, "base_description")
  ELSE IF cs.raised THEN PdRaise(cs.tool, "int")
  ELSE IF cs.status_code # 900 THEN PdReturn(cs.tool, 308, "tool_description")
  ELSE IF \A f \in NumericAttrs : t5[f] = 0 THEN PdReturn(t6, 206, "full dimension")
  ELSE PdReturn(IF using_mm THEN ConvertAttrs(t6) ELSE t6, 900, "")

\* variant: a long overall length means millimeters whatever the text holds
UsingMmAnyText(slash, oal, using_mm) == using_mm \/ oal > MM_CUTOFF

\* lines 708-710: using_mm after the look at the overall length
UsingMm(slash, oal, using_mm) == using_mm \/ (~slash /\ oal > MM_CUTOFF)

\* variant: with four separators the shank is taken from dims[2] as with three
ShankSegmentThird(x_cnt) == IF x_cnt = 2 THEN 2 ELSE 3

\* lines 670-677: the place of the shank diameter, dims[1], dims[2] or dims[3]
ShankSegment(x_cnt) == IF x_cnt = 2 THEN 2 ELSE IF x_cnt = 3 THEN 3 ELSE 4

\* lines 658-691: the dimensions, from the dimension text of the description
\* or from the fields of the event
PdDimensions(t2, using_mm_arg, cr_mm, split_description, neck_angle, segs) ==
  LET x_cnt == Len(segs) - 1
      loc_text == IF x_cnt = 2 THEN t2.length_of_cut ELSE segs[2]
      t3 == [t2 EXCEPT
               !.cut_diameter = EvalNum(segs[1]),
               !.length_of_cut = EvalNum(loc_text),
               !.shank_diameter = EvalNum(segs[ShankSegment(x_cnt)]),
               !.overall_length = EvalNum(segs[x_cnt + 1])]
      slash == \E i \in DOMAIN segs : HasSlash(segs[i])
  IN
  IF ~DimsEvalOk(segs) THEN PdReturn(t2, 206, "eval")
  ELSE IF x_cnt \notin {2, 3, 4} THEN PdReturn(t2, 205, "")
  ELSE IF ~FloatOk(loc_text) /\ x_cnt = 2 THEN PdRaise(t2, "float")
  ELSE IF slash /\ (using_mm_arg \/ cr_mm) THEN PdReturn(t3, 208, "")
  ELSE PdFinish(t3, UsingMm(slash, t3.overall_length, using_mm_arg \/ cr_mm),
                split_description, neck_angle, t2.flute_count)

\* variant: the dimensions are looked at before the flute count
PdWordsDimensionsFirst(t1, using_mm_arg, prep, description, split_description, neck_angle) ==
  LET t2 == [t1 EXCEPT !.flute_count = LastFluteToken(split_description, @)]
      dimension_list == SelectSeq(split_description, LAMBDA t : t.k = "dim")
      r == PdDimensions(t2, using_mm_arg, FALSE, split_description, neck_angle,
                        IF dimension_list = <<>>
                        THEN <<t2.cut_diameter, t2.length_of_cut, t2.shank_diameter,
                               t2.overall_length>>
                        ELSE dimension_list[1].segs)
  IN IF ~r.raised /\ r.status_code \in {205, 206} THEN r
     ELSE IF t2.flute_count = <<>> THEN PdReturn(t2, 307, "")
     ELSE r

\* lines 591-656: the corner radius, the loop over the words, the flute count
PdWords(t1, using_mm_arg, prep, description, split_description, neck_angle) ==
  LET has_cr == InSplit("CR", split_description)
      crm == CrMatch(description)
      t2 == [t1 EXCEPT
               !.corner_radius = IF has_cr /\ crm.found THEN crm.cr ELSE @,
               !.flute_count = LastFluteToken(split_description, @)]
      dimension_list == SelectSeq(split_description, LAMBDA t : t.k = "dim")
  IN
  IF has_cr /\ ~crm.found /\ prep THEN PdReturn(t1, 207, "description")
  ELSE IF t2.flute_count = <<>> THEN PdReturn(t2, 307, "")
  ELSE PdDimensions(t2, using_mm_arg, has_cr /\ crm.mm, split_description, neck_angle,
                    IF dimension_list = <<>>
                    THEN <<t2.cut_diameter, t2.length_of_cut, t2.shank_diameter,
                           t2.overall_length>>
                    ELSE dimension_list[1].segs)

\* lines 566-589: the neck
PdNeck(t0, using_mm_arg, prep, description, ni) ==
  LET nk == description[ni] IN
  IF ni # 0 /\ ~NeckEvalOk(nk) THEN PdRaise(t0, "eval")
  ELSE IF ni = 0 /\ prep /\ InStr("NECK", description) THEN PdReturn(t0, 209, "")
  ELSE PdWords(IF ni = 0 THEN t0
               ELSE IF nk.deg THEN [t0 EXCEPT !.neck_length = EvalNum(nk.y)]
               ELSE [t0 EXCEPT !.neck_diameter = EvalNum(nk.x),
                               !.neck_length = EvalNum(nk.y)],
               using_mm_arg, prep, description, RemoveAt(description, ni),
               IF ni # 0 /\ nk.deg THEN (EvalNum(nk.x) \div Scale) * 2 ELSE 0)

\* lines 527-565: the description is normalised and stored
PdDescription(tool, using_mm_arg, prep, description) ==
  PdNeck([tool EXCEPT !.full_description = tool.tool_description,
                      !.tool_description = description],
         using_mm_arg, prep, description, NeckIndex(description))

\* lines 489-783 after the reference data is at hand
parse_description(tool, using_mm_arg, prep) ==
  PdDescription(tool, using_mm_arg, prep, NormalizeDescription(tool.tool_description))

(***************************************************************************)
(* get_family                                                              *)
(***************************************************************************)
FirstWord(desc) == IF desc # <<>> /\ desc[1].k = "w" THEN desc[1].w ELSE ""

\* variant: the loop over the cut types does not stop at the first one found
LastCut(cuts, split_description) ==
  IF \E i \in DOMAIN cuts : InSplit(cuts[i], split_description)
  THEN CHOOSE i \in DOMAIN cuts :
         /\ InSplit(cuts[i], split_description)
         /\ \A j \in (i + 1)..Len(cuts) : ~InSplit(cuts[j], split_description)
  ELSE 0

\* the first cut of BUR_CUT_LIST that is a word of the description, 0 if none
FirstCut(cuts, split_description) ==
  IF \E i \in DOMAIN cuts : InSplit(cuts[i], split_description)
  THEN CHOOSE i \in DOMAIN cuts :
         /\ InSplit(cuts[i], split_description)
         /\ \A j \in 1..(i - 1) : ~InSplit(cuts[j], split_description)
  ELSE 0

\* the lists get_family takes from json_content[JSON_DICT_NAME], as
\* get_json_from_layer left them
FamilyLists ==
  [EM |-> EM_LIST, BUR |-> BUR_LIST, DRILL |-> DRILL_LIST, FBGR |-> FBGR_LIST,
   WR |-> WR_LIST, O_FLUTE |-> O_FLUTE_LIST, WR_COMP |-> WR_COMP_LIST,
   bur_cut_types |-> BUR_CUT_LIST]

FamilyInfo(code, family, ref_family, end_type, bur_cut, spiral) ==
  [status_code |-> code, error_msg |-> Msg(code, ""), family |-> family,
   ref_family |-> ref_family, end_type |-> end_type, bur_cut |-> bur_cut,
   spiral |-> spiral]

get_family(json_content, base_description, split_description) ==
  IF base_description \in json_content.EM
  THEN FamilyInfo(900, "EM", "SQ EM", "", "", FALSE)
  ELSE IF base_description \in json_content.WR
  THEN FamilyInfo(900, "WR", "SQ EM", "", "", FALSE)
  ELSE IF base_description \in json_content.DRILL
  THEN FamilyInfo(900, "DRILL", "SQ EM", "", "", FALSE)
  ELSE IF base_description \in json_content.FBGR
  THEN FamilyInfo(900, "FBGR", "BUR", FirstWord(split_description), "", FALSE)
  ELSE IF base_description \in json_content.O_FLUTE
  THEN FamilyInfo(900, "O-FLUTE", "SQ EM", "", "", FALSE)
  ELSE IF base_description \in json_content.WR_COMP
  THEN FamilyInfo(900, "WR COMP", "SQ EM", "", "", FALSE)
  ELSE IF /\ \E x \in json_content.BUR : PhraseIn(x, base_description)
          /\ ~PhraseIn(<<"DRILL">>, base_description)
       THEN IF FirstCut(json_content.bur_cut_types, split_description) # 0
            THEN FamilyInfo(900, "BUR", "BUR", "",
                            json_content.bur_cut_types[
                              FirstCut(json_content.bur_cut_types, split_description)],
                            InSplit("SPIRAL", split_description))
            ELSE FamilyInfo(302, "", "", "", "", FALSE)
  ELSE FamilyInfo(301, "", "", "", "", FALSE)

(***************************************************************************)
(* ToolInfo and InputArgData                                               *)
(***************************************************************************)
\* ToolInfo(cut_diameter=..., ...): material_dimension has no annotation, so
\* it is an attribute of the class, read through the instance until set
ToolInfo(diameter, loc, shank_dia, oal, fl_cnt, description, class_material_dimension) ==
  [cut_diameter |-> diameter, length_of_cut |-> loc, shank_diameter |-> shank_dia,
   overall_length |-> oal,
   flute_length |-> 0, tip_diameter |-> 0, tip_length |-> 0, pilot_length |-> 0,
   corner_radius |-> 0, neck_diameter |-> 0, neck_length |-> 0,
   tapered_neck_diameter |-> 0, tapered_neck_angle |-> 0, main_angle |-> 0,
   material |-> "", material_diameter |-> 0, material_oal |-> 0,
   material_dimension |-> class_material_dimension,
   full_description |-> <<>>, tool_description |-> description,
   bur_description |-> <<>>, formatted_description |-> <<>>,
   part_number |-> "", tool_family |-> "", reference_family |-> "", tool_type |-> "",
   flute_count |-> fl_cnt, fluting_cycle_time |-> 0, prep_cycle_time |-> 0,
   prep_type |-> <<>>]

InputArgData ==
  [tert_od_angle |-> FALSE, notch |-> FALSE, end_type |-> "", end_time |-> FALSE,
   bur_cut |-> "", spiral |-> FALSE, double_end |-> FALSE, coarse |-> FALSE,
   performance |-> FALSE, detail |-> FALSE, mass_detail |-> FALSE, mm |-> FALSE,
   prep |-> FALSE]

\* lines 1438-1451: the option tokens
ArgAttr(arg) ==
  CASE arg = "TERT" -> "tert_od_angle"
    [] arg = "NOTCH" -> "notch"
    [] arg = "DE" -> "double_end"
    [] arg = "COARSE" -> "coarse"
    [] arg = "DETAIL" -> "detail"
    [] arg = "MASS" -> "mass_detail"
    [] arg = "MM" -> "mm"
    [] arg = "PREP" -> "prep"
    [] OTHER -> ""

\* variant: prep is set whatever the option tokens are
FeatureOfWithPrep(args) ==
  [f \in DOMAIN InputArgData |->
     IF f = "prep" \/ \E i \in DOMAIN args : ArgAttr(args[i]) = f
     THEN TRUE ELSE InputArgData[f]]

FeatureOf(args) ==
  [f \in DOMAIN InputArgData |->
     IF \E i \in DOMAIN args : ArgAttr(args[i]) = f THEN TRUE ELSE InputArgData[f]]

\* k.upper() and k.lower() on the keys of the model
KeyUpper(k) ==
  CASE k \in {"part_num", "Part_Num"} -> "PART_NUM"
    [] k = "material" -> "MATERIAL"
    [] k = "tip_diameter" -> "TIP_DIAMETER"
    [] k = "color" -> "COLOR"
    [] OTHER -> k

KeyLower(k) ==
  CASE k \in {"PART_NUM", "Part_Num"} -> "part_num"
    [] k = "MATERIAL" -> "material"
    [] k = "MAT_DIMENSION" -> "mat_dimension"
    [] k = "TIP_DIAMETER" -> "tip_diameter"
    [] k = "TAPERED_NECK_DIA" -> "tapered_neck_dia"
    [] k = "COLOR" -> "color"
    [] OTHER -> k

\* lines 1452-1467: one keyword argument; type(getattr(tool, attr))(v)
KwAttr(k) ==
  CASE KeyUpper(k) = "PART_NUM" -> "part_number"
    [] KeyUpper(k) = "MATERIAL" -> "material"
    [] KeyUpper(k) = "MAT_DIMENSION" -> "material_dimension"
    [] KeyUpper(k) = "TIP_DIAMETER" -> "tip_diameter"
    [] KeyUpper(k) = "TAPERED_NECK_DIA" -> "tapered_neck_diameter"
    [] OTHER -> ""

\* variant: the value is stored without the conversion being tried
KwCoerceUnchecked(kw) == TRUE

KwCoerceOk(kw) ==
  KwAttr(kw.k) \in {"tip_diameter", "tapered_neck_diameter"}
    => Len(kw.segs) = 1 /\ FloatOk(kw.segs[1])

KwValue(kw) ==
  CASE KwAttr(kw.k) \in {"part_number", "material"} -> kw.str
    [] KwAttr(kw.k) = "material_dimension" -> kw.segs
    [] OTHER -> EvalNum(kw.segs[1])

\* the tool after the keyword arguments up to the first failing one
RECURSIVE ApplyKwargs(_, _)
ApplyKwargs(tool, kw) ==
  IF kw = <<>> THEN [ok |-> TRUE, tool |-> tool, k |-> ""]
  ELSE IF KwAttr(Head(kw).k) = "" THEN ApplyKwargs(tool, Tail(kw))
  ELSE IF ~KwCoerceOk(Head(kw)) THEN [ok |-> FALSE, tool |-> tool, k |-> Head(kw).k]
  ELSE ApplyKwargs([tool EXCEPT ![KwAttr(Head(kw).k)] = KwValue(Head(kw))], Tail(kw))

(***************************************************************************)
(* calc_fluting_time                                                       *)
(***************************************************************************)
\* text.split("/")
RECURSIVE SplitSlash(_)
SplitSlash(text) ==
  IF \E i \in DOMAIN text : text[i] = "/"
  THEN LET i == CHOOSE i \in DOMAIN text :
                  text[i] = "/" /\ \A j \in 1..(i - 1) : text[j] # "/"
       IN <<SubSeq(text, 1, i - 1)>> \o SplitSlash(SubSeq(text, i + 1, Len(text)))
  ELSE <<text>>

\* variant: the second count is never read
ParseFirstCountOnly(fl_cnt) ==
  LET parts == SplitSlash(fl_cnt) IN
  IF fl_cnt = <<>> THEN [status_code |-> 307, fl_cnt1 |-> 0, fl_cnt2 |-> 0]
  ELSE IF IntOk(parts[1])
       THEN [status_code |-> 900, fl_cnt1 |-> IntVal(parts[1]), fl_cnt2 |-> 1]
       ELSE [status_code |-> 203, fl_cnt1 |-> 0, fl_cnt2 |-> 0]

\* lines 1559-1575: fl_cnt1, fl_cnt2 or the failure code
ParseFluteCount(fl_cnt) ==
  LET parts == SplitSlash(fl_cnt) IN
  IF \E i \in DOMAIN fl_cnt : fl_cnt[i] = "/"
  THEN IF Len(parts) = 2 /\ IntOk(parts[1]) /\ IntOk(parts[2])
       THEN [status_code |-> 900, fl_cnt1 |-> IntVal(parts[1]), fl_cnt2 |-> IntVal(parts[2])]
       ELSE [status_code |-> 202, fl_cnt1 |-> 0, fl_cnt2 |-> 0]
  ELSE IF fl_cnt # <<>>
       THEN IF IntOk(fl_cnt)
            THEN [status_code |-> 900, fl_cnt1 |-> IntVal(fl_cnt), fl_cnt2 |-> 1]
            ELSE [status_code |-> 203, fl_cnt1 |-> 0, fl_cnt2 |-> 0]
       ELSE [status_code |-> 307, fl_cnt1 |-> 0, fl_cnt2 |-> 0]

\* min_diameter <= cut_dia and max_diameter >= cut_dia
InRange(row, cut_dia) == row.min_diameter <= cut_dia /\ row.max_diameter >= cut_dia

\* bur_type.unique(), in sheet order
RECURSIVE UniqueTypes(_, _)
UniqueTypes(sheet, seen) ==
  IF sheet = <<>> THEN <<>>
  ELSE IF Head(sheet).bur_type \in seen THEN UniqueTypes(Tail(sheet), seen)
       ELSE <<Head(sheet).bur_type>>
              \o UniqueTypes(Tail(sheet), seen \cup {Head(sheet).bur_type})

\* next(s for s in unique() if s.upper() in description), <<>> if none
BurTypeMatch(sheet, description) ==
  LET u == UniqueTypes(sheet, {}) IN
  IF \E i \in DOMAIN u : PhraseIn(u[i], description)
  THEN u[CHOOSE i \in DOMAIN u :
           PhraseIn(u[i], description) /\ \A j \in 1..(i - 1) : ~PhraseIn(u[j], description)]
  ELSE <<>>

\* variant: .iloc[-1]
LastRow(filtered_df) == filtered_df[Len(filtered_df)]

\* .iloc[0] of the filtered frame
FirstRow(filtered_df) == filtered_df[1]

\* lines 1602-1645: the rows left by the family's filter, or the failure code
SelectRows(tool, family, ref_fam) ==
  LET sheet == IF ref_fam = "BUR" THEN SheetBUR ELSE SheetEM
      split_description == tool.tool_description
      description == tool.formatted_description
      tire == PhraseIn(<<"TIRE", "BUR">>, description)
      shapes == {<<"CYLINDER", "NOENDCUT">>}
                  \cup (IF tire THEN {<<"INCLUDED", "POINTED", "CONE">>} ELSE {})
      match == BurTypeMatch(sheet, tool.bur_description)
      lookup_dia == IF family = "DRILL" /\ tool.cut_diameter > 8500
                    THEN 8500 ELSE tool.cut_diameter
  IN
  IF family = "FBGR" \/ InSplit("DIEMILL", split_description) \/ tire
  THEN [status_code |-> 900,
        rows |-> SelectSeq(sheet, LAMBDA r : InRange(r, tool.cut_diameter) /\ r.bur_type \in shapes)]
  ELSE IF family = "BUR"
  THEN IF match # <<>>
       THEN [status_code |-> 900,
             rows |-> SelectSeq(sheet, LAMBDA r : InRange(r, tool.cut_diameter) /\ r.bur_type = match)]
       ELSE [status_code |-> 304, rows |-> <<>>]
  ELSE [status_code |-> 900, rows |-> SelectSeq(sheet, LAMBDA r : InRange(r, lookup_dia))]

\* fixed-point product of two values in 1/10000
Mul(a, b) == MulDiv(a, b, Scale)

\* `word in description` for a description given as its words
InDesc(word, description) == PhraseIn(<<word>>, description)

\* chk_mirror_finish
chk_mirror_finish(inc_percentage, split_description) ==
  IF InSplit("MF", split_description) THEN inc_percentage + 2000 ELSE inc_percentage

\* part_num.startswith("AC"/"TA") and part_num.endswith("FM"), on the part
\* numbers of the model
MurakiFM(part_num) == part_num \in {"AC12FM", "TA12FM"}

\* description.split("~")[0].rstrip()
RECURSIVE BeforeTilde(_)
BeforeTilde(description) ==
  IF description = <<>> \/ Head(description) = "~" THEN <<>>
  ELSE <<Head(description)>> \o BeforeTilde(Tail(description))

FtResult(code, raised, fluting_time, inc_percentage, description, parts) ==
  [status_code |-> code, raised |-> raised, fluting_time |-> fluting_time,
   inc_percentage |-> inc_percentage, description |-> description, parts |-> parts]

\* the base cycle times of the report; the three flags are the lines "Has
\* Second OD Angle", "Has Split/Notch", "Has Tertiary OD Angle" of detail_print
Parts(sc, dc, fl, od, end, gash, split, sec_inc) ==
  [sc_time |-> sc, dc_time |-> dc, calc_fl_time |-> fl, calc_od_time |-> od,
   calc_end_time |-> end, calc_gash_time |-> gash, end_split_time |-> split,
   sec_inc |-> sec_inc,
   sec_od_angle |-> FALSE, split |-> FALSE, tert_od_angle |-> FALSE]

\* variant: with the constant 2.5 of the endmill branch
BurComponentDynamic(num, part, rate, inc_percentage) ==
  IF rate # 0 THEN Mul(MulDiv(num, (part * 25) \div 10, rate), inc_percentage) ELSE 0

\* lines 1750-1753: (length x part / rate) x flutes x inc_percentage, where
\* num is length x flutes; zero for a rate of zero
BurComponent(num, part, rate, inc_percentage) ==
  IF rate # 0 THEN Mul(MulDiv(num, part, rate), inc_percentage) ELSE 0

\* lines 1671-1781: ref_fam == "BUR"; times in 1/10000 minute
BurCalc(tool, feature, filtered_df, fl_cnt1, fl_cnt2) ==
  LET family == tool.tool_family
      split_description == tool.tool_description
      description == IF family = "BUR" THEN tool.bur_description
                     ELSE tool.formatted_description
      cut_dia == tool.cut_diameter
      tire == PhraseIn(<<"TIRE", "BUR">>, description)
      inc0 == chk_mirror_finish(Scale, split_description)
      loc == IF tire THEN tool.length_of_cut \div 5 ELSE tool.length_of_cut
      inc1 == IF tire /\ cut_dia >= 5000 THEN inc0 + 1500 ELSE inc0
      r0 == FirstRow(filtered_df)
      row_values == IF tire
                    THEN [f \in DOMAIN r0 |->
                            IF f = "bur_type" THEN r0[f] ELSE r0[f] + filtered_df[2][f]]
                    ELSE r0
      inc2 == IF feature.spiral THEN inc1 + 1000 ELSE inc1
      cutting == feature.bur_cut \notin {"FM", "NX"} \/ family = "FBGR"
      like_em == feature.bur_cut \in {"FM", "NX"} \/ family = "FBGR"
      sc_time == IF cutting THEN Mul(Mul(row_values.sc_fluting * fl_cnt1, loc), inc2) ELSE 0
      dc_time == IF cutting /\ (~InSplit("SC", split_description) \/ family = "FBGR")
                 THEN Mul(Mul(row_values.dc_fluting * fl_cnt2, loc), inc2) ELSE 0
      is_cs == InDesc("COUNTERSINK", description)
      is_cone == PhraseIn(<<"INCLUDED", "CONE">>, description) /\ loc < 2200
      inc3 == IF ~like_em THEN inc2
              ELSE IF is_cs
                   THEN inc2 + 2000
                          + (IF cut_dia > 3700 THEN MulDiv(cut_dia, Scale, loc) - 1500 ELSE 0)
              ELSE IF is_cone
                   THEN inc2 + (Scale - MulDiv(loc, Scale, 2200)) + 1000
                          + (IF fl_cnt1 < 6 THEN 2500 ELSE 0)
              ELSE inc2
      fbgr == family = "FBGR"
      fluting_feedrate == IF fbgr THEN 0 ELSE row_values.fluting_fr
      od_feedrate == IF fbgr THEN 0 ELSE row_values.od_fr
      end_gash_cycle_time == IF fbgr /\ feature.end_type \in {"PLAIN", "BUR", "FISHTAIL"}
                             THEN 0 ELSE row_values.end_gash_ct
      end_cycle_time == IF fbgr /\ feature.end_type = "PLAIN" THEN 0 ELSE row_values.end_ct
      split0 == IF fbgr THEN 0 ELSE row_values.end_split_ct
      end_split_time == IF MurakiFM(tool.part_number) /\ ~feature.notch
                        THEN (split0 * 45) \div 100 ELSE split0
      inc4 == IF like_em /\ cut_dia >= 7480 THEN inc3 + 1200 ELSE inc3
      calc_gash_time == BurComponent(cut_dia * fl_cnt1, 5000, end_gash_cycle_time, inc4)
      calc_end_time == BurComponent(cut_dia * fl_cnt1, 5000, end_cycle_time, inc4)
      calc_fl_time == BurComponent(loc * fl_cnt1, Scale, fluting_feedrate, inc4)
      calc_od_time == BurComponent(loc * fl_cnt1, Scale, od_feedrate, inc4)
      em_sum == calc_fl_time + calc_od_time + calc_end_time + calc_gash_time + end_split_time
      fluting_time == IF fbgr THEN em_sum + sc_time + dc_time
                      ELSE IF like_em THEN em_sum
                      ELSE sc_time + dc_time
      doubled == IF feature.double_end THEN fluting_time * 2 ELSE fluting_time
      parts == IF like_em
               THEN Parts(sc_time, dc_time, calc_fl_time, calc_od_time, calc_end_time,
                          calc_gash_time, end_split_time, 0)
               ELSE Parts(sc_time, dc_time, 0, 0, 0, 0, 0, 0)
  IN
  IF tire /\ Len(filtered_df) < 2
  THEN FtResult(0, TRUE, 0, inc1, description, Parts(0, 0, 0, 0, 0, 0, 0, 0))
  ELSE IF cutting /\ fl_cnt2 = 1 /\ \E i \in DOMAIN description : description[i] \in {"DM", "DC", "FBGR"}
  THEN FtResult(306, FALSE, 0, inc2, description, Parts(sc_time, 0, 0, 0, 0, 0, 0, 0))
  ELSE IF like_em /\ is_cs /\ cut_dia > 3700 /\ loc = 0
  THEN FtResult(0, TRUE, 0, inc2, description, Parts(sc_time, dc_time, 0, 0, 0, 0, 0, 0))
  ELSE FtResult(900, FALSE, doubled, inc4, BeforeTilde(description), parts)

\* round(3/25.4, 4)
dia_cutoff == 1181

SPLIT_DICT(key) ==
  CASE key = "SQ EM" -> {3, 5, 6}
    [] key = "BALL EM" -> {3, 4, 5, 6}
    [] key = "CR EM" -> {3, 5, 6}
    [] key = "ROUGHER EM" -> {3, 5, 6}
    [] key = "TAPERMILL EM" -> {3}
    [] OTHER -> {}

\* EM_MAP in insertion order; sec is "dia" where the entry keeps the
\* diameter-based second OD angle
EM_MAP(description) ==
  << [word |-> "SQ", split_key |-> "SQ EM", inc |-> 0, sec |-> "dia"],
     [word |-> "BALL", split_key |-> "BALL EM", inc |-> 2500, sec |-> "dia"],
     [word |-> "CR", split_key |-> "CR EM", inc |-> 2000, sec |-> "dia"],
     [word |-> "DRILLMILL", split_key |-> "NONE", inc |-> 500, sec |-> "dia"],
     [word |-> "ROUGHER", split_key |-> "ROUGHER EM", inc |-> 0, sec |-> "no"],
     [word |-> "ALUMAZIP", split_key |-> "NONE", inc |-> 0, sec |-> "no"],
     [word |-> "TAPERMILL", split_key |-> "TAPERMILL EM",
      inc |-> IF InDesc("CR", description) THEN 0 ELSE 500, sec |-> "yes"] >>

\* variant: a split asked for with NOTCH is kept
SplitOfKept(fl_cnt1, split_key, split) == fl_cnt1 \in SPLIT_DICT(split_key) \/ split

\* lines 1904-1907: the split of a matching shape, whatever it was before
SplitOf(fl_cnt1, split_key, split) == fl_cnt1 \in SPLIT_DICT(split_key)

\* lines 1902-1909: the loop over EM_MAP from entry i on
RECURSIVE EmMapLoop(_, _, _, _, _)
EmMapLoop(description, fl_cnt1, dia_sec, i, st) ==
  IF i > Len(EM_MAP(description)) THEN st
  ELSE LET e == EM_MAP(description)[i] IN
       EmMapLoop(description, fl_cnt1, dia_sec, i + 1,
         IF InDesc(e.word, description)
         THEN [inc_percentage |-> st.inc_percentage + e.inc,
               split |-> SplitOf(fl_cnt1, e.split_key, st.split),
               sec_od_angle |-> IF e.sec = "dia" THEN dia_sec ELSE e.sec = "yes"]
         ELSE st)

\* ps.startswith("V") on the series names of the model
StartsWithV(ps) == ps \in {"V4", "V5", "VX"}

FirstIs(word, description) == description # <<>> /\ description[1] = word

\* check_performance_series, the loop over PERF_LIST from entry i on
RECURSIVE check_performance_series(_, _, _, _)
check_performance_series(perf_list, tool_type, i, st) ==
  IF i > Len(perf_list) THEN st
  ELSE LET ps == perf_list[i]
           hit == IF ps = "CR TAPERMILL" THEN PhraseIn(<<"CR", "TAPERMILL">>, tool_type)
                  ELSE InDesc(ps, tool_type)
           nx == IF ~hit THEN st
                 ELSE IF StartsWithV(ps)
                 THEN [st EXCEPT !.inc_percentage = @ + 1000,
                                 !.split = IF FirstIs("SQ", tool_type) \/ FirstIs("CR", tool_type)
                                           THEN FALSE ELSE @]
                 ELSE IF ps = "AX"
                 THEN [st EXCEPT !.inc_percentage = @ + 500, !.split = FALSE,
                                 !.sec_inc = IF InDesc("CB", tool_type) THEN 7500 ELSE @]
                 ELSE IF ps = "CR TAPERMILL" THEN [st EXCEPT !.inc_percentage = @ - 1500]
                 ELSE IF ps = "F45" THEN [st EXCEPT !.inc_percentage = @ + 1000, !.split = FALSE]
                 ELSE IF ps = "HY5" THEN [st EXCEPT !.inc_percentage = @ + 1000]
                 ELSE IF ps \in {"HYPERMILL", "MOLD", "TWISTER"}
                 THEN [st EXCEPT !.inc_percentage = @ + 500]
                 ELSE st
       IN check_performance_series(perf_list, tool_type, i + 1, nx)

\* variant: the flag keeps the value it is initialised with
EndTimeKept(description, feature) == TRUE

\* lines 1822, 1932-1936: the end-time flag of the branch
EndTime(description, feature) ==
  IF InDesc("REAMER", description) THEN InDesc("ENDCUT", description)
  ELSE feature.end_time

\* variant: a second OD angle always counts as three passes
OdFactorTriple(sec_od_angle, tert_od_angle) == IF sec_od_angle THEN 3 ELSE 1

\* lines 1989-1992: the passes of the OD grind
OdFactor(sec_od_angle, tert_od_angle) ==
  IF sec_od_angle /\ tert_od_angle THEN 3
  ELSE IF sec_od_angle /\ ~tert_od_angle THEN 2 ELSE 1

\* variant: the flute count itself, also for two flutes
cntDirect(fl_cnt1) == fl_cnt1

\* lines 1824-1834: the count of the fluting and OD time, two flutes count
\* as four ("2 flute case accounting for passes")
cnt(fl_cnt1) == IF fl_cnt1 = 2 THEN 4 ELSE fl_cnt1

\* lines 1783-2031: the EM / WR / O-FLUTE / WR COMP / DRILL calculation;
\* the sheet rows of this branch carry non-zero rates
EmCalc(tool, feature, perf_list, row_values, fl_cnt1) ==
  LET family == tool.tool_family
      description == tool.formatted_description
      cut_dia == tool.cut_diameter
      org_loc == tool.length_of_cut
      mini == InDesc("MINI-MILL", description)
      ofx == InDesc("OFX", description)
      staggered == InDesc("STAGGERED", description)
      reamer == InDesc("REAMER", description)
      drill == ~reamer /\ family = "DRILL"
      spade == drill /\ InDesc("SPADE", description)
      loc1 == IF mini /\ 2 * cut_dia > org_loc
              THEN (org_loc * 18) \div 10 ELSE org_loc
      loc == IF staggered THEN cut_dia * 3 ELSE loc1
      inc0 == IF ofx /\ cut_dia > 790 THEN Scale + 2000 ELSE Scale
      inc1 == IF ofx THEN inc0 + 2000 ELSE chk_mirror_finish(inc0, tool.tool_description)
      fluting_feedrate == IF cut_dia < 600
                          THEN MulDiv(row_values.fluting_fr, cut_dia, row_values.max_diameter)
                          ELSE row_values.fluting_fr
      od_feedrate == IF cut_dia < 600
                     THEN MulDiv(row_values.od_fr, cut_dia, row_values.max_diameter)
                     ELSE row_values.od_fr
      fl0 == MulDiv(loc * cnt(fl_cnt1), 25000, fluting_feedrate)
      od0 == MulDiv(loc * cnt(fl_cnt1), 25000, od_feedrate)
      end0 == MulDiv(cut_dia * fl_cnt1, 12500, row_values.end_ct)
      gash0 == MulDiv(cut_dia * fl_cnt1, 12500, row_values.end_gash_ct)
      st1 == EmMapLoop(description, fl_cnt1, cut_dia >= dia_cutoff, 1,
               [inc_percentage |-> inc1, split |-> feature.notch,
                sec_od_angle |-> cut_dia >= dia_cutoff])
      sec_inc1 == IF InDesc("ROUGHER", description) THEN Scale ELSE 0
      inc2 == st1.inc_percentage
                + (IF InDesc("STRFL", description) /\ ~reamer
                   THEN 1000 + (IF family = "DRILL" THEN 4500 ELSE 0) ELSE 0)
                + (IF family \in ROUTER_FAM
                   THEN (IF InDesc("CB", description) THEN 2000 ELSE 0)
                        + (IF InDesc("COMP", description)
                           THEN (IF fl_cnt1 = 2 THEN 5000 ELSE 7000) ELSE 0)
                        + (IF InDesc("HOGGER", description) \/ InDesc("RIPPER", description)
                           THEN 4000 ELSE 0)
                   ELSE 0)
      end_time == EndTime(description, feature)
      small == cut_dia < dia_cutoff
      inc3 == IF ~drill THEN inc2
              ELSE IF spade THEN inc2 + 3000 + (IF cut_dia < 1575 THEN 1500 ELSE 0)
              ELSE inc2
                     - (IF small THEN 2000 + (IF cut_dia < 501 THEN 3000 ELSE 0) ELSE 0)
                     + (IF InDesc("SPOTTING", description) THEN 2000
                        ELSE IF InDesc("DRILL&COUNTERSINK", description)
                             THEN (IF cut_dia > 500 THEN 1500 ELSE 0)
                        ELSE IF InDesc("HURRICANE", description) THEN 2000
                        ELSE IF InDesc("MAXIMIZER", description) THEN 1500 ELSE 0)
                     + (IF loc < 7000 /\ cut_dia > 790 /\ ~InDesc("SPOTTING", description)
                        THEN 1500 ELSE 0)
                     - (IF cut_dia > 5000 THEN 500 ELSE 0)
      fl1 == IF spade THEN MulDiv(loc, 508, 100) ELSE fl0
      od1 == IF drill THEN 0 ELSE od0
      gash1 == IF drill /\ (spade \/ small) THEN 0 ELSE gash0
      st2 == [inc_percentage |-> inc3, split |-> IF drill THEN FALSE ELSE st1.split,
              sec_od_angle |-> st1.sec_od_angle, sec_inc |-> sec_inc1]
      st3 == IF feature.performance
             THEN check_performance_series(perf_list, description, 1, st2) ELSE st2
      no_od == od1 = 0 \/ staggered
      sec_od_angle == st3.sec_od_angle /\ ~no_od
      tert_od_angle == feature.tert_od_angle /\ st3.sec_od_angle /\ ~no_od
      split == st3.split /\ ~staggered
      calc_end_time == IF end_time THEN end0 ELSE 0
      calc_gash_time == IF end_time THEN gash1 ELSE 0
      end_split_time == IF split THEN row_values.end_split_ct ELSE 0
      od2 == IF staggered THEN 0 ELSE od1
      calc_od_time == od2 * OdFactor(sec_od_angle, tert_od_angle)
      base_time == Mul(fl1 + calc_od_time + calc_end_time + calc_gash_time + end_split_time,
                       st3.inc_percentage) + st3.sec_inc * fl_cnt1
      doubled == IF feature.double_end THEN base_time * 2 ELSE base_time
      mm_ratio == MulDiv(cut_dia, Scale, loc)
      fluting_time == IF mini /\ 2 * cut_dia > loc
                      THEN Mul(doubled, 2 * Scale + (6000 - mm_ratio)) ELSE doubled
  IN
  IF mini /\ (org_loc = 0 \/ loc = 0)
  THEN FtResult(0, TRUE, 0, inc0, description, Parts(0, 0, 0, 0, 0, 0, 0, 0))
  ELSE FtResult(900, FALSE, fluting_time, st3.inc_percentage, description,
                [Parts(0, 0, fl1, calc_od_time, calc_end_time, calc_gash_time,
                       end_split_time, st3.sec_inc)
                   EXCEPT !.sec_od_angle = sec_od_angle, !.split = split,
                          !.tert_od_angle = tert_od_angle])

\* sheet "Bur Live Time": program -> cycle_avg2 in seconds
BurLiveTime == [p \in {"AC12FM"} |-> 150]

\* lines 1585-1600
ActualTime(part_num, double_end) ==
  LET t == IF part_num \in DOMAIN BurLiveTime THEN BurLiveTime[part_num] ELSE 0
  IN IF double_end THEN 2 * t ELSE t

NoDetail == [kind |-> "", description |-> <<>>, time |-> 0, inc_percentage |-> 0,
             actual_time |-> 0, prep_time |-> 0, prep_type |-> <<>>,
             parts |-> Parts(0, 0, 0, 0, 0, 0, 0, 0)]

\* variant: mass_detail is tested first
DetailKindMassFirst(feature) ==
  IF feature.mass_detail THEN "feature_list"
  ELSE IF feature.detail THEN "detail_print" ELSE "description"

\* lines 2040-2045: the if / elif / else on feature.detail, feature.mass_detail
DetailKind(feature) ==
  IF feature.detail THEN "detail_print"
  ELSE IF feature.mass_detail THEN "feature_list" ELSE "description"

\* lines 2040-2045: detail_print, feature_list or the description
DetailOf(tool, feature, r, fluting_time) ==
  [NoDetail EXCEPT
     !.kind = DetailKind(feature),
     !.description = r.description,
     !.time = IF feature.detail THEN fluting_time
              ELSE IF feature.mass_detail THEN r.fluting_time ELSE 0,
     !.inc_percentage = IF feature.detail \/ feature.mass_detail THEN r.inc_percentage ELSE 0,
     !.actual_time = IF ~feature.detail /\ feature.mass_detail
                     THEN ActualTime(tool.part_number, feature.double_end) ELSE 0,
     !.parts = IF feature.detail \/ feature.mass_detail THEN r.parts ELSE @]

\* variant: a time of zero is a success
FlutingStatusAlwaysOk(fluting_time) == 900

\* lines 2035-2039
FlutingStatus(fluting_time) == IF fluting_time = 0 THEN 401 ELSE 900

FtReturn(code, note, tool, feature, detail) ==
  [status_code |-> code, error_msg |-> Msg(code, note), raised |-> FALSE,
   function |-> "calc_fluting_time", tool |-> tool, feature |-> feature, detail |-> detail]

FtRaise(tool, feature) ==
  [status_code |-> 0, error_msg |-> Msg(0, "raise"), raised |-> TRUE,
   function |-> "calc_fluting_time", tool |-> tool, feature |-> feature, detail |-> NoDetail]

\* lines 2032-2046: the time is rounded and stored, a zero time is a failure
FtFinish(tool, feature, r) ==
  LET fluting_time == Round3(r.fluting_time)
      t1 == [tool EXCEPT !.fluting_cycle_time = fluting_time]
  IN
  IF r.raised THEN FtRaise(tool, feature)
  ELSE IF r.status_code # 900 THEN FtReturn(r.status_code, "", tool, feature, NoDetail)
  ELSE IF FlutingStatus(fluting_time) # 900
  THEN FtReturn(FlutingStatus(fluting_time), "", t1, feature, NoDetail)
  ELSE FtReturn(900, "", t1, feature, DetailOf(t1, feature, r, fluting_time))

\* lines 1602-2031: the rate row and the calculation of the family
FtRows(tool, feature, perf_list, fc, sel) ==
  IF sel.status_code # 900
  THEN FtReturn(304, "bur_description", tool, feature, NoDetail)
  ELSE IF sel.rows = <<>> THEN FtReturn(305, "", tool, feature, NoDetail)
  ELSE FtFinish(tool, feature,
                IF tool.reference_family = "BUR"
                THEN BurCalc(tool, feature, sel.rows, fc.fl_cnt1, fc.fl_cnt2)
                ELSE EmCalc(tool, feature, perf_list, FirstRow(sel.rows), fc.fl_cnt1))

\* lines 1559-1581: the flute counts and the workbook
FtCounts(tool, feature, perf_list, excel_data, fc) ==
  IF fc.status_code # 900
  THEN FtReturn(fc.status_code, IF fc.status_code = 307 THEN "" ELSE "e", tool, feature, NoDetail)
  ELSE IF excel_data.status_code # 900
  THEN [FtReturn(excel_data.status_code, excel_data.function, tool, feature, NoDetail)
          EXCEPT !.function = excel_data.function]
  ELSE FtRows(tool, feature, perf_list, fc,
              SelectRows(tool, tool.tool_family, tool.reference_family))

\* calc_fluting_time; excel_data is what get_xlsx_from_layer returned
calc_fluting_time(tool, feature, perf_list, excel_data) ==
  FtCounts(tool, feature, perf_list, excel_data, ParseFluteCount(tool.flute_count))

(***************************************************************************)
(* calc_prep_time.  Volumes in 1/1000000 cubic inch, removal rates in      *)
(* 1/1000000 cubic inch per minute, times in 1/10000 minute.               *)
(***************************************************************************)
PREP_DICT == Json.prep

\* the prep sheets of the workbook, rows in sheet order
F_RED_PREP ==
  << [length_ratio |-> 2, neck_ratio |-> 0, reduction_vol |-> 5000, rate |-> 20000, major_diameter |-> 0],
     [length_ratio |-> 4, neck_ratio |-> 0, reduction_vol |-> 50000, rate |-> 40000, major_diameter |-> 0],
     [length_ratio |-> 10, neck_ratio |-> 0, reduction_vol |-> 20000, rate |-> 10000, major_diameter |-> 0] >>

NECK_PREP ==
  << [length_ratio |-> 3, neck_ratio |-> 1000, reduction_vol |-> 2000, rate |-> 3000, major_diameter |-> 0],
     [length_ratio |-> 10, neck_ratio |-> 1000, reduction_vol |-> 4000, rate |-> 2000, major_diameter |-> 0],
     [length_ratio |-> 3, neck_ratio |-> 3000, reduction_vol |-> 20000, rate |-> 4000, major_diameter |-> 0],
     [length_ratio |-> 6, neck_ratio |-> 5000, reduction_vol |-> 80000, rate |-> 40000, major_diameter |-> 0],
     [length_ratio |-> 10, neck_ratio |-> 3000, reduction_vol |-> 30000, rate |-> 2500, major_diameter |-> 0] >>

POINT_PREP ==
  << [length_ratio |-> 0, neck_ratio |-> 0, reduction_vol |-> 0, rate |-> 5000, major_diameter |-> 2500],
     [length_ratio |-> 0, neck_ratio |-> 0, reduction_vol |-> 0, rate |-> 20000, major_diameter |-> 5000],
     [length_ratio |-> 0, neck_ratio |-> 0, reduction_vol |-> 0, rate |-> 60000, major_diameter |-> 10000] >>

PrepSheet(sheet_name) ==
  CASE sheet_name = "F_RED_PREP" -> F_RED_PREP
    [] sheet_name = "NECK_PREP" -> NECK_PREP
    [] OTHER -> POINT_PREP

\* a * b / c rounded toward zero, for a of either sign
SMulDiv(a, b, c) == IF a >= 0 THEN MulDiv(a, b, c) ELSE -MulDiv(-a, b, c)

\* a diameter of 1/10000 inch in 1/1000 inch
Mil(d) == RoundDiv(d, 10)

\* major_vol - minor_vol with pi = 355/113
ReductionVol(major_od, minor_od, height, vol_type) ==
  LET D == Mil(major_od)
      d == Mil(minor_od)
  IN IF vol_type = "CYLINDER"
     THEN SMulDiv(SMulDiv(D * D - d * d, Mil(height), 1000), 355, 452)
     ELSE SMulDiv(SMulDiv(2 * D * D - d * d - D * d, Mil(height), 1000), 355, 1356)

\* (frame[col] - target).abs().idxmin(): index of the first closest row
ClosestIdx(rows, target, col) ==
  CHOOSE i \in DOMAIN rows :
    /\ \A j \in DOMAIN rows : Abs(rows[i][col] - target) <= Abs(rows[j][col] - target)
    /\ \A j \in 1..(i - 1) : Abs(rows[j][col] - target) > Abs(rows[i][col] - target)

VolResult(code, raised, time, reduction_vol, rate) ==
  [status_code |-> code, raised |-> raised, time |-> time,
   reduction_vol |-> reduction_vol, rate |-> rate]

\* round(height / minor_od, 0) < 8
RatioUnder8(height, minor_od) == 2 * height < 15 * minor_od

\* vol_calc
vol_calc(tool, major_od, minor_od, height, sheet_name, vol_type) ==
  LET fr_df == PrepSheet(sheet_name)
      reduction_vol == ReductionVol(major_od, minor_od, height, vol_type)
      under8 == RatioUnder8(height, minor_od)
      thin == IF minor_od = major_od
              THEN (major_od - minor_od) * 100 < 15 * major_od
              ELSE (major_od - minor_od) * 100 < 20 * major_od
      neck_df == SelectSeq(fr_df, LAMBDA r : IF thin THEN r.neck_ratio < 1500
                                                   ELSE r.neck_ratio >= 1500)
      pool == IF sheet_name = "NECK_PREP" THEN neck_df ELSE fr_df
      subset == SelectSeq(pool, LAMBDA r : IF under8 THEN r.length_ratio < 8
                                                    ELSE r.length_ratio >= 8)
      inc == (IF minor_od * 100 >= 45 * major_od THEN 11 ELSE 10)
               + (IF InStr("TAPERMILL", tool.tool_description) /\ height > 8 * minor_od
                  THEN 16 ELSE 0)
      rate == IF sheet_name = "POINT_PREP"
              THEN (fr_df[ClosestIdx(fr_df, major_od, "major_diameter")].rate * inc) \div 10
              ELSE subset[ClosestIdx(subset, reduction_vol, "reduction_vol")].rate
      time == IF rate = 0 THEN 0 ELSE Round3(SMulDiv(reduction_vol, Scale, rate))
  IN
  IF fr_df = <<>> THEN VolResult(404, FALSE, 0, 0, 0)
  ELSE IF minor_od = 0 \/ major_od = 0 THEN VolResult(0, TRUE, 0, 0, 0)
  ELSE IF sheet_name # "POINT_PREP" /\ subset = <<>> THEN VolResult(0, TRUE, 0, 0, 0)
  ELSE VolResult(900, FALSE, time, reduction_vol, rate)

PrepReturn(code, note, fn, tool) ==
  [status_code |-> code, error_msg |-> Msg(code, note), raised |-> FALSE,
   function |-> fn, tool |-> tool]

PrepRaise(tool) ==
  [status_code |-> 0, error_msg |-> Msg(0, "raise"), raised |-> TRUE,
   function |-> "calc_prep_time", tool |-> tool]

\* round(time * inc_percentage, 4) with inc_percentage = 1.10
Inc10(time) == RoundDiv(time * 11, 10)

\* lines 1386-1400: robot time of one prep entry
RobotTime(entry) ==
  IF entry[2] < 11100 /\ entry[2] # 0
  THEN (IF entry[1] = "Backtaper Prep" THEN 833 ELSE 3333)
  ELSE 0

\* lines 1369-1425: the sum, the doubling and the closing round
TotalPrepTime(prep_type, double_end) ==
  LET prep_times == [i \in DOMAIN prep_type |->
                       Round3(prep_type[i][2] + RobotTime(prep_type[i]))]
      robot_time == IF prep_type = <<>> THEN 0 ELSE RobotTime(prep_type[Len(prep_type)])
      total == SumSeq(prep_times)
  IN Round3((IF double_end THEN total * 2 ELSE total) + robot_time)

\* variant: the shank diameter as given, brazed or not
PrepShankDiaGiven(tool) == tool.shank_diameter

\* lines 991-992: a brazed tool is prepared on its cut diameter
PrepShankDia(tool) ==
  IF tool.material = "BRAZED" THEN tool.cut_diameter ELSE tool.shank_diameter

\* lines 905-1146: the dimensions and the preps the tool needs
PrepPlan(tool) ==
  LET description == tool.tool_description
      split_description == description
      cut_dia == tool.cut_diameter
      loc == tool.length_of_cut
      oal == tool.overall_length
      nk_dia == tool.neck_diameter
      nk_len == tool.neck_length
      mat_len == tool.material_oal
      family == tool.tool_family
      dcs == InStr("DRILL&COUNTERSINK", description)
      fr0 == cut_dia < tool.shank_diameter
      FR_DICT == PREP_DICT.fr_prep
      shank_dia == PrepShankDia(tool)
      BT_DICT == PREP_DICT.backtaper_prep
      POINT_PREP_DICT == PREP_DICT.point_prep
      hurricane == family = "DRILL" /\ InStr("HURRICANE", description)
      named == (\E word \in POINT_PREP_DICT.tools : InStr(word, description)) /\ ~dcs
      ball == PREP_DICT.ball_prep
      is_ball == InSplit("BALL", split_description)
      tapermill == InSplit("TAPERMILL", split_description)
      short == oal # 0 /\ oal < mat_len
      bumping == short /\ (mat_len - oal) * 254 < PREP_DICT.bumping_prep.length_cutoff * 10
  IN
  [cut_dia |-> cut_dia, loc |-> loc, oal |-> oal, nk_dia |-> nk_dia, nk_len |-> nk_len,
   family |-> family, dcs |-> dcs, tapermill |-> tapermill,
   shank_dia |-> shank_dia,
   cg_prep |-> tool.material_diameter > cut_dia
                 /\ tool.material_diameter > tool.shank_diameter,
   prep_dia |-> IF ~fr0 \/ family = "DRILL" THEN cut_dia
                ELSE IF cut_dia > FR_DICT.dia_cutoff1 THEN cut_dia + FR_DICT.prep_dia_inc1
                ELSE IF cut_dia >= FR_DICT.dia_cutoff2 THEN cut_dia + FR_DICT.prep_dia_inc2
                ELSE cut_dia + FR_DICT.prep_dia_inc3,
   shank_reduction_prep |-> shank_dia < cut_dia,
   neck_prep |-> nk_dia # 0 /\ nk_dia # cut_dia,
   prep_length |-> IF nk_dia # 0 /\ nk_dia = cut_dia THEN loc + nk_len
                   ELSE IF dcs THEN tool.pilot_length ELSE loc,
   backtaper_prep |-> \E word \in BT_DICT.tools : InStr(word, description),
   bt_rate |-> BT_DICT.rate,
   tapered_neck_angle |->
     IF tool.tapered_neck_diameter # 0 /\ tool.tapered_neck_angle = 0
     THEN PREP_DICT.bur_neck_prep.included_prep_angle
     ELSE tool.tapered_neck_angle,
   tapered_neck_prep |->
     /\ tool.tapered_neck_diameter # 0
     /\ ~(shank_dia < cut_dia
            /\ \E x \in {"OVAL", "INVERTED"} : InSplit(x, split_description)),
   hurricane |-> hurricane,
   big_drill |-> family = "DRILL" /\ ~hurricane
                   /\ cut_dia >= PREP_DICT.drill_prep.point_prep_dia_cutoff,
   named |-> named,
   tip_percent |-> IF named \/ hurricane THEN POINT_PREP_DICT.tip_pct
                   ELSE IF dcs THEN POINT_PREP_DICT.drill_countersink_pct
                   ELSE POINT_PREP_DICT.drill_pct,
   radius_prep |-> is_ball /\ cut_dia > ball.dia_cutoff,
   chamfer_prep |->
     \/ /\ is_ball /\ cut_dia <= ball.dia_cutoff
        /\ \/ cut_dia > ball.dia_ref_1 /\ loc < ball.loc_ref_1
           \/ cut_dia >= ball.dia_ref_2 /\ loc >= ball.loc_ref_2
     \/ /\ InSplit("CR", split_description)
        /\ cut_dia > PREP_DICT.cr_prep.dia_cutoff
        /\ tool.corner_radius * 100 >= PREP_DICT.cr_prep.cut_pct * cut_dia
     \/ (InStr("PILOTED", description) /\ InStr("DIEMILL", description)),
   front_reduction_prep |-> fr0 /\ ~tapermill,
   bumping_prep |-> bumping,
   cut_off_prep |-> short /\ ~bumping,
   flat_prep |-> InSplit("W/FLAT", split_description)]

\* lines 1085-1110: the tip of the point prep
PrepPoint(tool, p) ==
  LET tip_diameter == IF p.chamfer_prep THEN p.cut_dia \div 2 ELSE tool.tip_diameter
      point0 == p.hurricane \/ p.big_drill \/ p.named \/ tip_diameter # 0
  IN
  [tip_diameter |-> tip_diameter,
   main_angle |-> IF p.chamfer_prep THEN 45 ELSE tool.main_angle,
   point0 |-> point0,
   point_prep |-> point0 \/ p.tapermill,
   prep_tip_dia |->
     IF p.tapermill
     THEN (IF InSplit("SQ", tool.tool_description) \/ InSplit("CR", tool.tool_description)
           THEN p.cut_dia + 100 ELSE p.cut_dia)
     ELSE IF ~point0 THEN 0
     ELSE IF p.family = "BUR" THEN tip_diameter
     ELSE IF tip_diameter # 0 THEN tip_diameter + 100
     ELSE (p.cut_dia * p.tip_percent) \div 100,
   reach |-> p.nk_len + p.loc,
   \* round(reach / cut_dia, 0) > 6.0, > 7.0
   nk_af |-> /\ p.front_reduction_prep
             /\ \/ /\ p.shank_dia <= 1250 /\ 2 * (p.nk_len + p.loc) > 13 * p.cut_dia
                   /\ p.cut_dia >= 350
                \/ /\ p.shank_dia > 1250 /\ p.shank_dia <= 2500
                   /\ 2 * (p.nk_len + p.loc) > 15 * p.cut_dia]

NoVolume == VolResult(900, FALSE, 0, 0, 0)

\* lines 1257-1367: one call of vol_calc for each prep that removes material
PrepVolumes(tool, p, q) ==
  LET pt_base == IF p.front_reduction_prep \/ p.shank_reduction_prep
                 THEN p.prep_dia ELSE p.shank_dia
  IN
  [sr_info |-> IF p.shank_reduction_prep
               THEN vol_calc(tool, p.cut_dia, p.shank_dia, p.oal - p.loc,
                             "F_RED_PREP", "CYLINDER")
               ELSE NoVolume,
   nk_info |-> IF p.neck_prep
               THEN vol_calc(tool, IF q.nk_af THEN p.shank_dia ELSE p.prep_dia,
                             p.nk_dia, p.nk_len, "NECK_PREP", "CYLINDER")
               ELSE NoVolume,
   fr_info |-> IF p.front_reduction_prep
               THEN vol_calc(tool, p.shank_dia, p.prep_dia,
                             IF p.neck_prep /\ ~q.nk_af THEN q.reach ELSE p.prep_length,
                             "F_RED_PREP", "CYLINDER")
               ELSE NoVolume,
   pt_info |-> IF q.point_prep
               THEN vol_calc(tool, pt_base, q.prep_tip_dia,
                             find_height_tan(q.main_angle, pt_base)
                               - find_height_tan(q.main_angle, q.prep_tip_dia),
                             "POINT_PREP", "CONE")
               ELSE NoVolume,
   tp_info |-> IF p.tapered_neck_prep
               THEN vol_calc(tool, p.shank_dia, tool.tapered_neck_diameter,
                             IF p.nk_len # 0 THEN p.nk_len
                             ELSE find_height_tan(p.tapered_neck_angle, p.shank_dia)
                                    - find_height_tan(p.tapered_neck_angle,
                                                      tool.tapered_neck_diameter),
                             "POINT_PREP", "CONE")
               ELSE NoVolume]

PrepEntry(on, name, time) == IF on THEN << <<name, time>> >> ELSE <<>>

\* lines 1369-1394: the preps of the tool in the order of the report
PrepTypes(p, q, v) ==
  PrepEntry(p.front_reduction_prep, "Front Reduction Prep", Inc10(v.fr_info.time))
    \o PrepEntry(p.shank_reduction_prep, "Shank Reduction Prep", Inc10(v.sr_info.time))
    \o PrepEntry(q.point_prep, "Point Prep", Inc10(v.pt_info.time))
    \o PrepEntry(p.chamfer_prep, "Chamfer Prep", 0)
    \o PrepEntry(p.tapered_neck_prep, "Tapered Neck Prep", Inc10(v.tp_info.time))
    \o PrepEntry(p.radius_prep, "Radius Prep", 0)
    \o PrepEntry(p.backtaper_prep, "Backtaper Prep",
                 Inc10(MulDiv(p.prep_length, 254, p.bt_rate * 10)))
    \o PrepEntry(p.flat_prep, "Flat Prep", 0)
    \o PrepEntry(p.cut_off_prep, "Cut Off Prep", 0)
    \o PrepEntry(p.bumping_prep, "Bumping Prep", 0)
    \o PrepEntry(p.cg_prep, "Centerless Grinding Prep", 0)
    \o PrepEntry(p.neck_prep, IF q.nk_af THEN "Neck Prep (After Fluting)"
                              ELSE "Neck Prep (Before Fluting)", Inc10(v.nk_info.time))

\* lines 1369-1425: the report and the total
PrepTotal(t1, double_end, prep_type) ==
  IF prep_type = <<>> THEN PrepReturn(900, "", "calc_prep_time", t1)
  ELSE PrepReturn(900, "", "calc_prep_time",
         [t1 EXCEPT
            !.prep_type = prep_type
                            \o << <<"Robot Time", RobotTime(prep_type[Len(prep_type)])>> >>,
            !.prep_cycle_time = TotalPrepTime(prep_type, double_end)])

\* the first call of vol_calc that failed ends calc_prep_time
PrepFinish(t1, double_end, p, q, v) ==
  LET vol_calls == <<v.sr_info, v.nk_info, v.fr_info, v.pt_info, v.tp_info>>
      bad == {i \in DOMAIN vol_calls : vol_calls[i].raised \/ vol_calls[i].status_code # 900}
      first_bad == vol_calls[CHOOSE i \in bad : \A j \in bad : i <= j]
  IN
  IF bad # {}
  THEN (IF first_bad.raised THEN PrepRaise(t1)
        ELSE PrepReturn(first_bad.status_code, "vol_calc", "vol_calc", t1))
  ELSE PrepTotal(t1, double_end, PrepTypes(p, q, v))

\* lines 926-1146: the checks that come before any volume is computed
PrepChecks(tool, double_end, p, q) ==
  LET t1 == [tool EXCEPT !.tapered_neck_angle = p.tapered_neck_angle,
                         !.tip_diameter = q.tip_diameter, !.main_angle = q.main_angle]
  IN
  IF p.cut_dia = 0 \/ p.loc = 0 \/ tool.shank_diameter = 0
  THEN PrepReturn(206, "In prep calculation", "calc_prep_time", tool)
  ELSE IF InStr("TAPEREDNECK", tool.tool_description) /\ tool.tapered_neck_diameter = 0
  THEN PrepReturn(211, "", "calc_prep_time", tool)
  ELSE IF q.point0 /\ q.main_angle = 0
  THEN PrepReturn(404, "main angle", "calc_prep_time", t1)
  ELSE IF q.point0 /\ p.family = "BUR" /\ q.tip_diameter = 0
  THEN PrepReturn(404, "tip diameter", "calc_prep_time", t1)
  ELSE PrepFinish(t1, double_end, p, q, PrepVolumes(tool, p, q))

PrepPlanned(tool, double_end, p) == PrepChecks(tool, double_end, p, PrepPoint(tool, p))

\* calc_prep_time(tool, context, parse=False, double_end)
calc_prep_time(tool, double_end) == PrepPlanned(tool, double_end, PrepPlan(tool))

(***************************************************************************)
(* memoize and the three memoized readers.  A cache maps a context handle  *)
(* to the status of the ContentDict it holds, 0 where the key is not in    *)
(* the cache.  `reads` counts the executions of the body that opens the    *)
(* two files.                                                              *)
(***************************************************************************)
StorageKinds == {"ok", "json_empty", "excel_empty", "unreadable"}

\* JSON_FILE / EXCEL_FILE: ./ref-layer for context None, /opt otherwise
PathOf(context) == IF context = None THEN "local" ELSE "opt"

\* the status access_lambda_layer computes from the files
ReadStatus(kind) ==
  CASE kind = "ok" -> 900
    [] kind = "json_empty" -> 101
    [] kind = "excel_empty" -> 102
    [] OTHER -> 500

NoCache == [c \in Contexts |-> 0]

\* `key not in cache` negated
memo_hit(cache, key) == cache[key] # 0

LayerResult(mem, status_code, fn) == [mem |-> mem, status_code |-> status_code, function |-> fn]

access_lambda_layer(mem, storage, context) ==
  IF memo_hit(mem.access_lambda_layer, context)
  THEN LayerResult(mem, mem.access_lambda_layer[context], "access_lambda_layer")
  ELSE LET status == ReadStatus(storage[PathOf(context)]) IN
       LayerResult([mem EXCEPT !.access_lambda_layer[context] = status,
                               !.reads[context] = @ + 1],
                   status, "access_lambda_layer")

get_json_from_layer(mem, storage, context) ==
  IF memo_hit(mem.get_json_from_layer, context)
  THEN LayerResult(mem, mem.get_json_from_layer[context],
                   IF mem.get_json_from_layer[context] = 900
                   THEN "get_json_from_layer" ELSE "access_lambda_layer")
  ELSE LET layer_data == access_lambda_layer(mem, storage, context) IN
       LayerResult([layer_data.mem EXCEPT !.get_json_from_layer[context] = layer_data.status_code],
                   layer_data.status_code,
                   IF layer_data.status_code = 900
                   THEN "get_json_from_layer" ELSE "access_lambda_layer")

get_xlsx_from_layer(mem, storage, context) ==
  IF memo_hit(mem.get_xlsx_from_layer, context)
  THEN LayerResult(mem, mem.get_xlsx_from_layer[context],
                   IF mem.get_xlsx_from_layer[context] = 900
                   THEN "get_xlsx_from_layer" ELSE "access_lambda_layer")
  ELSE LET layer_data == access_lambda_layer(mem, storage, context) IN
       LayerResult([layer_data.mem EXCEPT !.get_xlsx_from_layer[context] = layer_data.status_code],
                   layer_data.status_code,
                   IF layer_data.status_code = 900
                   THEN "get_xlsx_from_layer" ELSE "access_lambda_layer")

(***************************************************************************)
(* lambda_handler and get_tool_detail, between the stages.                 *)
(***************************************************************************)
\* lines 221-226: an empty numeric field becomes 0
ZeroIfEmpty(t) == IF t.form = "empty" THEN Dec(0) ELSE t

\* lines 209-214: the loop over kwargs.items() breaks after its first key
PartNumOf(kwargs) ==
  IF kwargs # <<>> /\ KeyLower(kwargs[1].k) = "part_num" THEN kwargs[1].str ELSE ""

RequiredKeys == {"Diameter", "LOC", "ShankDiameter", "OAL", "FluteCount", "Description"}

\* variant: only the presence of the keys is checked
EntryCodeKeysOnly(e) == IF e.missing \cap RequiredKeys # {} THEN 108 ELSE 900

\* lines 227-250: KeyError -> 108, then the empty description -> 204
EntryCode(e) ==
  IF e.missing \cap RequiredKeys # {} THEN 108
  ELSE IF e.Description = <<>> THEN 204
  ELSE 900

\* variant: a failing get_family does not stop the pipeline
NextStageFamilyIgnored(fn, status_code, prep) ==
  CASE fn = "parse_description" -> IF status_code = 900 THEN "family" ELSE "respond"
    [] fn = "get_family" -> IF prep THEN "prep" ELSE "fluting"
    [] fn = "calc_prep_time" -> IF status_code = 900 THEN "fluting" ELSE "respond"
    [] OTHER -> "respond"

\* get_tool_detail lines 1469-1551: where control goes when stage fn returned
NextStage(fn, status_code, prep) ==
  IF status_code # 900 THEN "respond"
  ELSE CASE fn = "parse_description" -> "family"
         [] fn = "get_family" -> IF prep THEN "prep" ELSE "fluting"
         [] fn = "calc_prep_time" -> "fluting"
         [] OTHER -> "respond"

\* variant: the assignment lands on the class
ClassAttrOverwritten(class_value, instance_value) == instance_value

\* setattr(tool, attr, value) writes the instance; the class keeps its value
ClassAttrAfterSetattr(class_value, instance_value) == class_value

\* lines 1489-1500: material_dimension -> material_diameter, material_oal
MaterialDimOk(tool) ==
  Len(tool.material_dimension) = 2 /\ \A i \in 1..2 : EvalOk(tool.material_dimension[i])

MaterialDims(tool) ==
  IF tool.material_dimension = <<>>
  THEN [tool EXCEPT !.material_diameter = tool.cut_diameter,
                    !.material_oal = tool.overall_length]
  ELSE LET dia == EvalNum(tool.material_dimension[1])
           len == EvalNum(tool.material_dimension[2])
       IN IF len > MM_CUTOFF
          THEN [tool EXCEPT !.material_diameter = RoundDiv(dia * 10, 254),
                            !.material_oal = RoundDiv(len * 10, 254)]
          ELSE [tool EXCEPT !.material_diameter = dia, !.material_oal = len]

\* lines 1505-1510: flags read off the description
DescriptionFlags(feature, split_description) ==
  [feature EXCEPT
     !.double_end = @ \/ InSplit("DRILL&COUNTERSINK", split_description)
                      \/ InSplit("DE", split_description),
     !.coarse = @ \/ InSplit("CC", split_description)]

\* lines 1529-1535: router adjustments and the performance flag
RouterAdjust(tool, feature, perf_list) ==
  LET router == tool.tool_family \in ROUTER_FAM
      t == IF router /\ tool.flute_count = <<"1">>
           THEN [tool EXCEPT !.flute_count = <<"2">>] ELSE tool
      f == IF router
           THEN [feature EXCEPT !.notch = FALSE,
                                !.end_time = \E w \in HAS_END_TIME : InSplit(w, tool.tool_description)]
           ELSE feature
  IN [tool |-> t,
      feature |-> [f EXCEPT !.performance =
                      \E i \in DOMAIN perf_list : InStr(perf_list[i], tool.tool_description)]]

\* the response of lambda_handler
NoBody ==
  [PartNumber |-> "", Diameter |-> 0, LOC |-> 0, ShankDiameter |-> 0, OAL |-> 0,
   FluteCount |-> <<>>, Description |-> <<>>, Family |-> "", PrepType |-> <<>>,
   CycleTime |-> 0, PrepTime |-> 0, TotalCycleTime |-> 0, Detail |-> NoDetail]

NoResponse == [statusCode |-> 0, errorMessage |-> Msg(0, ""), has_body |-> FALSE, body |-> NoBody]

Failure(code, msg) ==
  [statusCode |-> code, errorMessage |-> msg, has_body |-> FALSE, body |-> NoBody]

\* variant: the total without the prep time
TotalWithoutPrep(tool) == Round3(tool.fluting_cycle_time)

\* lines 281-298
TotalCycleTime(tool) == Round3(tool.fluting_cycle_time + tool.prep_cycle_time)

Success(part_num, tool, detail) ==
  [statusCode |-> 900, errorMessage |-> Msg(900, "Success!"), has_body |-> TRUE,
   body |-> [PartNumber |-> part_num, Diameter |-> tool.cut_diameter,
             LOC |-> tool.length_of_cut, ShankDiameter |-> tool.shank_diameter,
             OAL |-> tool.overall_length, FluteCount |-> tool.flute_count,
             Description |-> tool.full_description, Family |-> tool.tool_family,
             PrepType |-> tool.prep_type, CycleTime |-> tool.fluting_cycle_time,
             PrepTime |-> tool.prep_cycle_time, TotalCycleTime |-> TotalCycleTime(tool),
             Detail |-> detail]]

(***************************************************************************)
(* The requests of the model.                                              *)
(***************************************************************************)
NoFields == <<EmptyText, EmptyText, EmptyText, EmptyText>>

\* Diameter .25, LOC .5, ShankDiameter .25, OAL 2
StdFields == <<Dec(2500), Dec(5000), Dec(2500), Dec(20000)>>

\* the same with LOC "1/2"
FracLocFields == <<Dec(2500), Frac(1, 2), Dec(2500), Dec(20000)>>

\* Diameter .1, below the cutoff of 3 mm for a second OD angle
SmallFields == <<Dec(1000), Dec(5000), Dec(2500), Dec(20000)>>

\* LOC .4, diameter / LOC = .625; LOC .25, diameter / LOC = 1
StubFields == <<Dec(2500), Dec(4000), Dec(2500), Dec(20000)>>

StubbierFields == <<Dec(2500), Dec(2500), Dec(2500), Dec(20000)>>

\* Diameter .125 on a shank of .25; diameter .5 on a shank of .25
NarrowCutFields == <<Dec(1250), Dec(5000), Dec(2500), Dec(20000)>>

NarrowShankFields == <<Dec(5000), Dec(10000), Dec(2500), Dec(30000)>>

ZeroLocFields == <<Dec(2500), Dec(0), Dec(2500), Dec(20000)>>

\* "1/4X3/8X1/4X2"
QuarterDims == DIM(<<Frac(1, 4), Frac(3, 8), Frac(1, 4), Dec(20000)>>)

\* "08500 1/4X3/8X1/4X2 OVAL DOUBLECUT WITH .113X.6395 NECK"
BurWithNeck ==
  <<QuarterDims, W("OVAL"), W("DOUBLECUT"), W("WITH"),
    NECK(Dec(1130), Dec(6395), FALSE, FALSE)>>

\* "1/4X3/8X1/4X2 OVAL DC WITH .2X.1 NECK"
BurWithShortNeck ==
  <<QuarterDims, W("OVAL"), W("DC"), W("WITH"), NECK(Dec(2000), Dec(1000), FALSE, FALSE)>>

\* "... OVAL DC WITH 5°X.5 TAPEREDNECK"
BurWithAngledNeck ==
  <<QuarterDims, W("OVAL"), W("DC"), W("WITH"), NECK(Dec(50000), Dec(5000), TRUE, TRUE)>>

\* "... OVAL DC WITH 5°X.5 NECK": the pattern matches, the text does not evaluate
BurWithBadNeck ==
  <<QuarterDims, W("OVAL"), W("DC"), W("WITH"), NECK(Dec(50000), Dec(5000), TRUE, FALSE)>>

SquareEndmill == <<W("SQUARE"), W("ENDMILL")>>

\* "6X13X6X19"
MetricDims == DIM(<<Dec(60000), Dec(130000), Dec(60000), Dec(190000)>>)

Catalogue ==
  << Ev(BurWithNeck, NoFields, <<"8", "/", "5">>, <<>>, <<>>, {}),
     Ev(BurWithNeck, NoFields, <<"8", "/", "5">>, <<"PREP">>,
        <<Kw("PART_NUM", "08500", <<>>)>>, {}),
     Ev(BurWithAngledNeck, NoFields, <<"8", "/", "5">>, <<>>, <<>>, {}),
     Ev(BurWithAngledNeck, NoFields, <<"8", "/", "5">>, <<"PREP">>, <<>>, {}),
     Ev(BurWithBadNeck, NoFields, <<"8", "/", "5">>, <<>>, <<>>, {}),
     Ev(SquareEndmill, StdFields, <<"4">>, <<>>, <<>>, {}),
     Ev(SquareEndmill, StdFields, <<"4">>, <<"PREP">>, <<>>, {}),
     Ev(SquareEndmill, StdFields, <<"4">>, <<"PREP">>,
        <<Kw("MAT_DIMENSION", "", <<Dec(5000), Dec(30000)>>)>>, {}),
     Ev(SquareEndmill, StdFields, <<"4">>, <<>>,
        <<Kw("MAT_DIMENSION", "", <<Dec(5000)>>)>>, {}),
     Ev(SquareEndmill, StdFields, <<"4">>, <<>>,
        <<Kw("TIP_DIAMETER", "", <<Frac(1, 2)>>)>>, {}),
     Ev(SquareEndmill, StdFields, <<"3">>, <<"DE", "DETAIL">>, <<>>, {}),
     Ev(SquareEndmill, FracLocFields, <<"4">>, <<>>, <<>>, {}),
     Ev(SquareEndmill, ZeroLocFields, <<"4">>, <<>>, <<>>, {}),
     Ev(SquareEndmill, StdFields, <<>>, <<>>, <<>>, {}),
     Ev(SquareEndmill, StdFields, <<"a", "/", "b">>, <<>>, <<>>, {}),
     Ev(SquareEndmill, StdFields, <<"8", "/">>, <<>>, <<>>, {}),
     Ev(SquareEndmill, StdFields, <<"a">>, <<>>, <<>>, {}),
     Ev(SquareEndmill, StdFields, <<"4">>, <<>>, <<>>, {"LOC"}),
     Ev(SquareEndmill, StdFields, <<"4">>, <<>>, NotAMapping, {}),
     Ev(<<DIM(<<Dec(2500), Dec(2500), Dec(20000)>>), W("SQ"), W("EM")>>,
        FracLocFields, <<"4">>, <<>>, <<>>, {}),
     Ev(<<DIM(<<Dec(2500), Dec(2500), Dec(20000)>>), W("SQ"), W("EM")>>,
        StdFields, <<"4">>, <<>>, <<>>, {}),
     Ev(<<DIM(<<Dec(5000), Dec(10000), Dec(5000), Dec(30000)>>), FL(2), W("SQUARE"), W("ENDMILL")>>,
        NoFields, <<>>, <<>>, <<>>, {}),
     Ev(<<DIM(<<Dec(60000), Dec(130000), Dec(60000), Dec(500000)>>), W("BALL"), W("EM")>>,
        NoFields, <<"2">>, <<>>, <<>>, {}),
     Ev(<<DIM(<<Dec(10000), Dec(20000), Dec(10000), Dec(40000)>>), FL(2), W("DRILL")>>,
        NoFields, <<>>, <<>>, <<>>, {}),
     Ev(<<DIM(<<Dec(90000), Dec(20000), Dec(10000), Dec(40000)>>), W("SQ"), W("EM")>>,
        NoFields, <<"4">>, <<>>, <<>>, {}),
     Ev(<<QuarterDims, W("WR"), W("UPCUT")>>, NoFields, <<"1">>, <<"NOTCH">>, <<>>, {}),
     Ev(<<W("WIDGET")>>, StdFields, <<"4">>, <<>>, <<>>, {}),
     Ev(<<QuarterDims, W("OVAL")>>, NoFields, <<"8">>, <<>>, <<>>, {}),
     Ev(<<QuarterDims, W("OVAL"), W("SINGLECUT")>>, NoFields, <<"8">>, <<>>, <<>>, {}),
     Ev(<<QuarterDims, W("CYLINDER"), W("DC")>>, NoFields, <<"8", "/", "5">>, <<>>, <<>>, {}),
     Ev(<<QuarterDims, W("CYLINDER"), W("FM")>>, NoFields, <<"6">>, <<>>, <<>>, {}),
     Ev(<<QuarterDims, W("FLAME"), W("DC")>>, NoFields, <<"8", "/", "5">>, <<>>, <<>>, {}),
     Ev(<<DIM(<<Dec(6000), Dec(5000), Dec(6000), Dec(30000)>>), W("OVAL"), W("DC")>>,
        NoFields, <<"8", "/", "5">>, <<>>, <<>>, {}),
     Ev(<<QuarterDims, W("FISHTAIL"), W("FBGR")>>, NoFields, <<"8", "/", "5">>, <<>>, <<>>, {}),
     Ev(<<>>, StdFields, <<"4">>, <<>>, <<>>, {}),
     Ev(<<>>, NoFields, <<>>, <<"PREP">>, <<>>, {}),
     Ev(<<>>, StdFields, <<"4">>, <<>>, <<>>, {"OAL"}),
     Ev(<<>>, StdFields, <<"4">>, <<>>, NotAMapping, {}),
     Ev(SquareEndmill, StdFields, <<"4">>, <<>>,
        <<Kw("MATERIAL", "SOLID", <<>>), Kw("PART_NUM", "101-2666", <<>>)>>, {}),
     Ev(SquareEndmill, StdFields, <<"4">>, <<>>,
        <<Kw("part_num", "101-2666", <<>>), Kw("color", "RED", <<>>),
          Kw("tip_diameter", "", <<Dec(0)>>)>>, {}),
     Ev(SquareEndmill, StdFields, <<"4">>, <<"MASS">>, <<>>, {}),
     Ev(SquareEndmill, StdFields, <<"4">>, <<"MASS", "DETAIL">>, <<>>, {}),
     Ev(BurWithNeck, NoFields, <<"8", "/", "5">>, <<"MASS">>,
        <<Kw("PART_NUM", "AC12FM", <<>>)>>, {}),
     Ev(<<FL(3), W("SQUARE"), W("ENDMILL"), FL(5)>>, StdFields, <<"4">>, <<>>, <<>>, {}),
     Ev(<<QuarterDims, FL(1), W("WR"), W("UPCUT")>>, NoFields, <<"3">>, <<>>, <<>>, {}),
     Ev(<<DIM(<<Dec(2500), Dec(10000), Dec(2500), Dec(30000)>>), W("SPOTTING"), W("DRILL")>>,
        NoFields, <<"3">>, <<>>, <<>>, {}),
     Ev(<<DIM(<<Dec(2500), Dec(20000)>>), W("SQ"), W("EM")>>, StdFields, <<"4">>, <<>>, <<>>, {}),
     Ev(<<DIM(<<Dec(2500), Dec(5000), Dec(1250), Dec(3750), Dec(25000)>>), W("SQ"), W("EM")>>,
        NoFields, <<"4">>, <<>>, <<>>, {}),
     Ev(<<DIM(<<Dec(2500), Dec(5000), Dec(1250), Dec(3750), Dec(2500), Dec(25000)>>),
          W("SQ"), W("EM")>>, NoFields, <<"4">>, <<>>, <<>>, {}),
     Ev(<<DIM(<<Frac(1, 2), Dec(10000), Frac(1, 2), Dec(250000)>>), W("SQ"), W("EM")>>,
        NoFields, <<"4">>, <<>>, <<>>, {}),
     Ev(<<QuarterDims, W("SQ"), W("EM")>>, NoFields, <<"4">>, <<"MM">>, <<>>, {}),
     Ev(<<QuarterDims, CRV(Dec(5000), TRUE), W("EM")>>, NoFields, <<"4">>, <<>>, <<>>, {}),
     Ev(<<MetricDims, W("SQ"), W("EM")>>, NoFields, <<"4">>, <<"MM">>, <<>>, {}),
     Ev(<<MetricDims, W("SQ"), W("EM")>>, NoFields, <<"4">>, <<>>, <<>>, {}),
     Ev(<<MetricDims, CRV(Dec(5000), TRUE), W("EM")>>, NoFields, <<"4">>, <<>>, <<>>, {}),
     Ev(SquareEndmill, FracLocFields, <<"4">>, <<"MM">>, <<>>, {}),
     Ev(<<MetricDims, W("SQ"), W("EM")>>, NoFields, <<"4">>, <<"MM", "PREP">>, <<>>, {}),
     Ev(<<DIM(<<Dec(60000), Dec(130000), Dec(60000), Dec(500000)>>), W("SQ"), W("EM")>>,
        NoFields, <<"4">>, <<"PREP">>, <<>>, {}),
     Ev(<<MetricDims, W("SQ"), W("EM")>>, NoFields, <<"4">>, <<"MM">>,
        <<Kw("TIP_DIAMETER", "", <<Dec(30000)>>)>>, {}),
     Ev(BurWithShortNeck, NoFields, <<"8", "/", "5">>, <<"PREP">>, <<>>, {}),
     Ev(BurWithShortNeck, NoFields, <<"8", "/", "5">>, <<"PREP", "DE">>, <<>>, {}),
     Ev(BurWithNeck, NoFields, <<"8", "/", "5">>, <<"PREP", "DE">>, <<>>, {}),
     Ev(<<W("SQ"), W("TAPERMILL"), W("EM")>>, StdFields, <<"4">>, <<"PREP">>, <<>>, {}),
     Ev(<<DEG(10), W("SQ"), W("TAPERMILL"), W("EM")>>, StdFields, <<"4">>, <<"PREP">>,
        <<>>, {}),
     Ev(SquareEndmill, StdFields, <<"4">>, <<"PREP">>,
        <<Kw("TIP_DIAMETER", "", <<Dec(1000)>>)>>, {}),
     Ev(SquareEndmill, StdFields, <<"2">>, <<"DETAIL">>, <<>>, {}),
     Ev(<<QuarterDims, W("WR"), W("UPCUT"), W("ENDCUT")>>, NoFields, <<"2">>,
        <<"DETAIL">>, <<>>, {}),
     Ev(<<QuarterDims, W("WR"), W("UPCUT")>>, NoFields, <<"2">>, <<"DETAIL">>, <<>>, {}),
     Ev(<<QuarterDims, W("REAMER"), W("ENDCUT")>>, NoFields, <<"4">>, <<"DETAIL">>, <<>>, {}),
     Ev(<<QuarterDims, W("REAMER")>>, NoFields, <<"4">>, <<"DETAIL">>, <<>>, {}),
     Ev(SquareEndmill, StdFields, <<"4">>, <<"TERT", "DETAIL">>, <<>>, {}),
     Ev(SquareEndmill, StdFields, <<"4">>, <<"DETAIL">>, <<>>, {}),
     Ev(SquareEndmill, SmallFields, <<"4">>, <<"TERT", "DETAIL">>, <<>>, {}),
     Ev(SquareEndmill, SmallFields, <<"4">>, <<"DETAIL">>, <<>>, {}),
     Ev(<<W("SQ"), W("MINI-MILL")>>, StdFields, <<"4">>, <<"DETAIL">>, <<>>, {}),
     Ev(<<W("SQ"), W("MINI-MILL")>>, StubFields, <<"4">>, <<"DETAIL">>, <<>>, {}),
     Ev(<<W("SQ"), W("MINI-MILL")>>, StubbierFields, <<"4">>, <<"DETAIL", "DE">>, <<>>, {}),
     Ev(<<QuarterDims, W("CYLINDER"), W("FM")>>, NoFields, <<"2">>, <<"DETAIL">>, <<>>, {}),
     Ev(<<QuarterDims, W("CYLINDER"), W("FM")>>, NoFields, <<"6">>, <<"DETAIL", "DE">>,
        <<>>, {}),
     Ev(<<DIM(<<Dec(7500), Dec(10000), Dec(7500), Dec(30000)>>), W("CYLINDER"), W("FM")>>,
        NoFields, <<"2">>, <<"DETAIL">>, <<>>, {}),
     Ev(SquareEndmill, StdFields, <<"4">>, <<"NOTCH", "DETAIL">>, <<>>, {}),
     Ev(SquareEndmill, StdFields, <<"3">>, <<"DETAIL">>, <<>>, {}),
     Ev(<<W("SQ"), W("V4"), W("EM")>>, StdFields, <<"3">>, <<"DETAIL">>, <<>>, {}),
     Ev(<<QuarterDims, W("REAMER")>>, NoFields, <<"4">>, <<"NOTCH", "DETAIL">>, <<>>, {}),
     Ev(<<QuarterDims, W("WR"), W("UPCUT")>>, NoFields, <<"2">>, <<"NOTCH", "DETAIL">>,
        <<>>, {}),
     Ev(<<DIM(<<Dec(10000), Dec(20000), Dec(10000), Dec(40000)>>), W("DRILL")>>,
        NoFields, <<"2">>, <<"NOTCH", "DETAIL">>, <<>>, {}),
     Ev(SquareEndmill, NarrowCutFields, <<"4">>, <<"PREP">>, <<>>, {}),
     Ev(SquareEndmill, NarrowShankFields, <<"4">>, <<"PREP">>, <<>>, {}),
     Ev(SquareEndmill, NarrowShankFields, <<"4">>, <<"PREP">>,
        <<Kw("MATERIAL", "BRAZED", <<>>)>>, {}),
     Ev(SquareEndmill, StdFields, <<"4">>, <<"PREP">>,
        <<Kw("MAT_DIMENSION", "", <<Dec(5000), Dec(22500)>>)>>, {}),
     Ev(<<W("WIDGET")>>, StdFields, <<>>, <<>>,
        <<Kw("TIP_DIAMETER", "", <<Frac(1, 2)>>)>>, {}),
     Ev(<<DIM(<<Dec(2500), Dec(20000)>>), W("WIDGET")>>, StdFields, <<>>, <<>>, <<>>, {}),
     Ev(<<DIM(<<Frac(1, 4), Dec(20000)>>), W("WIDGET")>>, StdFields, <<"4">>, <<"MM">>,
        <<>>, {}),
     Ev(<<QuarterDims, W("WIDGET")>>, NoFields, <<"4">>, <<"MM">>, <<>>, {}),
     Ev(<<QuarterDims, W("SQ"), W("COUNTERSINK")>>, NoFields, <<"4">>, <<>>, <<>>, {}),
     Ev(<<QuarterDims, W("COUNTERSINK")>>, NoFields, <<"4">>, <<>>, <<>>, {}),
     Ev(<<DIM(<<Frac(1, 4), Dec(0), Frac(1, 4), Dec(20000)>>), W("OVAL")>>, NoFields,
        <<"8">>, <<>>, <<>>, {}),
     Ev(<<DIM(<<Frac(1, 4), EmptyText, Frac(1, 4), Dec(20000)>>), W("WIDGET")>>, NoFields,
        <<"4">>, <<"MM">>, <<>>, {}) >>

\* the requests and the context handles of a workload
Pools == {"catalogue", "layers"}

LayerEvents == {2, 6, 35}

Events(p) ==
  IF p = "catalogue" THEN Range(Catalogue) ELSE {Catalogue[i] : i \in LayerEvents}

PoolContexts(p) == IF p = "catalogue" THEN {None} ELSE Contexts

(***************************************************************************)
(* The process.  One request is handled at a time; the caches, PERF_LIST   *)
(* and the class attribute of ToolInfo live as long as the process.        *)
(***************************************************************************)
(***************************************************************************)
(* CycleTimeCalc.py, the desktop form.  A tool type is the sequence of its *)
(* words; lengths are in 1/10000 inch, times in 1/10000 minute.            *)
(***************************************************************************)
\* main lines 16-29; a comma is missing after "CR AX EM"
main_tool_types_list ==
  { <<"DRILLMILL", "EM">>, <<"ROUGHER", "EM">>,
    <<"SQ", "EM">>, <<"SQ", "ALUMAZIP", "EM">>, <<"SQ", "TAPERMILL", "EM">>,
    <<"SQ", "V4", "EM">>, <<"SQ", "V5", "EM">>, <<"SQ", "V7", "EM">>, <<"SQ", "AX", "EM">>,
    <<"SQ", "F45", "EM">>, <<"SQ", "HY5", "EM">>, <<"SQ", "HYPERMILL", "EM">>,
    <<"SQ", "TWISTERMILL", "EM">>,
    <<"CR", "EM">>, <<"CR", "ALUMAZIP", "EM">>,
    <<"CR", "V4", "EM">>, <<"CR", "V5", "EM">>, <<"CR", "V7", "EM">>,
    <<"CR", "AX", "EMCR", "TAPERMILL", "EM">>, <<"CR", "F45", "EM">>, <<"CR", "HY5", "EM">>,
    <<"CR", "MOLD", "MILL", "EM">>,
    <<"BALL", "EM">>, <<"BALL", "ALUMAZIP", "EM">>, <<"BALL", "TAPERMILL", "EM">>,
    <<"BALL", "V4", "EM">>, <<"BALL", "V5", "EM">>, <<"BALL", "AX", "EM">>,
    <<"BALL", "MOLD", "MILL", "EM">>,
    <<"WOOD", "ROUTER">> }

em_list_type_list == {"SQ", "CR", "BALL"}

\* main lines 30-35
em_list ==
  {i \in main_tool_types_list : Head(i) \in em_list_type_list /\ i[Len(i)] = "EM"}

\* a Diameter cell that is empty
NaN == -1

\* a row of the sheet "Test"
MassRow(tool_type, part_num, diameter, loc, flute_count) ==
  [Tool_Type |-> tool_type, Part_Number |-> part_num, Diameter |-> diameter,
   Length_of_Cut |-> loc, Flute_Count |-> flute_count]

\* the sheet "SQ EM" of Reference.xlsx
ReferenceSheet ==
  << [min_diameter |-> 1250, max_diameter |-> 5000, fluting_fr |-> 20000, od_fr |-> 40000,
      end_ct |-> 10000, end_gash_ct |-> 20000, end_split_ct |-> 5000],
     [min_diameter |-> 2500, max_diameter |-> 10000, fluting_fr |-> 15000, od_fr |-> 30000,
      end_ct |-> 10000, end_gash_ct |-> 20000, end_split_ct |-> 7500] >>

\* ref_df before check_tool_type has ever assigned the global
Undefined == <<"undefined">>

\* get_reference_xl returned nothing
NoSheet == <<"None">>

\* get_reference_xl, lines 134-148: the sheet named after the tool type
get_reference_xl(workbook, tool_type) ==
  IF ~workbook.exists THEN NoSheet
  ELSE IF tool_type \notin workbook.sheets THEN NoSheet
  ELSE tool_type

\* check_tool_type, lines 283-295: the new value of the global ref_df and
\* what the function returns (0, or nothing)
check_tool_type(workbook, ref_df, tool_type) ==
  IF tool_type \notin main_tool_types_list THEN [ref_df |-> ref_df, zero |-> FALSE]
  ELSE LET df == IF tool_type \in em_list THEN get_reference_xl(workbook, <<"SQ", "EM">>)
                 ELSE get_reference_xl(workbook, tool_type)
       IN [ref_df |-> df, zero |-> (df = NoSheet)]

\* calc_cycle_time lines 198-246: inc_percentage (in 1/100) and split
SeriesOf(tool_type, st) ==
  LET v == "V4" \in Range(tool_type) \/ "V5" \in Range(tool_type)
      ax == "AX" \in Range(tool_type)
      s1 == IF v THEN [inc |-> st.inc + 10,
                       split |-> st.split /\ Head(tool_type) \notin {"SQ", "CR"}]
            ELSE st
  IN IF ax THEN [inc |-> s1.inc + 15, split |-> FALSE] ELSE s1

split_dict == [SQ |-> {3, 5, 6}, BALL |-> {3, 4, 5, 6}, CR |-> {3, 5, 6}, ALUMAZIP |-> {3}]

\* no result: the row is left out
NoResult == [found |-> FALSE, cycle_time |-> 0, calc_fl_time |-> 0, calc_od_time |-> 0,
             calc_end_time |-> 0, calc_gash_time |-> 0, end_split_time |-> 0]

\* calc_cycle_time lines 161-277 for a type of em_list
EndmillTime(form, diameter, loc, flute_count, tool_type) ==
  LET filtered_df == SelectSeq(ReferenceSheet,
                       LAMBDA r : r.min_diameter <= diameter /\ r.max_diameter >= diameter)
      row_values == filtered_df[1]
      sec_od_angle == ~(diameter < dia_cutoff)
      passes == IF flute_count = 2 THEN 4 ELSE flute_count
      calc_fl_time == (MulDiv(loc, Scale, row_values.fluting_fr) * 25 * passes) \div 10
      od == (MulDiv(loc, Scale, row_values.od_fr) * 25 * flute_count) \div 10
      calc_od_time == IF sec_od_angle THEN (IF form.tert THEN 3 ELSE 2) * od ELSE od
      calc_end_time ==
        (MulDiv(diameter \div 2, Scale, row_values.end_ct) * 25 * flute_count) \div 10
      calc_gash_time ==
        (MulDiv(diameter \div 2, Scale, row_values.end_gash_ct) * 25 * flute_count) \div 10
      st0 == IF Head(tool_type) = "SQ"
             THEN [inc |-> 100, split |-> flute_count \in split_dict.SQ]
             ELSE IF Head(tool_type) = "BALL"
             THEN [inc |-> 125, split |-> flute_count \in split_dict.BALL]
             ELSE [inc |-> 120, split |-> flute_count \in split_dict.CR]
      st == SeriesOf(tool_type, st0)
      end_split_time == IF st.split THEN row_values.end_split_ct ELSE 0
  IN
  IF filtered_df = <<>> THEN NoResult
  ELSE IF "ALUMAZIP" \in Range(tool_type) THEN NoResult
  ELSE [found |-> TRUE,
        cycle_time |-> ((calc_fl_time + calc_od_time + calc_end_time + calc_gash_time
                          + end_split_time) * st.inc) \div 100,
        calc_fl_time |-> calc_fl_time, calc_od_time |-> calc_od_time,
        calc_end_time |-> calc_end_time, calc_gash_time |-> calc_gash_time,
        end_split_time |-> end_split_time]

\* calc_cycle_time line 152: reading the global ref_df that was never
\* assigned is a NameError; the zero tests stand before it
NameErrorAt(ref_df, diameter, loc, flute_count) ==
  diameter # 0 /\ loc # 0 /\ flute_count # 0 /\ ref_df = Undefined

\* calc_cycle_time, lines 150-277
calc_cycle_time(form, ref_df, diameter, loc, flute_count, tool_type) ==
  IF diameter = 0 \/ loc = 0 \/ flute_count = 0 \/ ref_df = NoSheet THEN NoResult
  ELSE IF tool_type \notin em_list THEN NoResult
  ELSE IF form.unit = "mm"
  THEN EndmillTime(form, RoundDiv(diameter * 10, 254), RoundDiv(loc * 10, 254),
                   flute_count, tool_type)
  ELSE EndmillTime(form, diameter, loc, flute_count, tool_type)

\* the form before a button is clicked
GuiAtRest ==
  [pc |-> "idle", mass_calc |-> FALSE, form |-> [unit |-> "in", tert |-> FALSE],
   workbook |-> [exists |-> TRUE, sheets |-> {<<"SQ", "EM">>}],
   mass_calc_df |-> <<>>, index |-> 0, ref_df |-> Undefined, result_df |-> <<>>]

VARIABLES
  gui,                       \* CycleTimeCalc.py: the globals and the batch loop
  tool_types,                \* the family lists of json_content[JSON_DICT_NAME]
  pool,                      \* the workload of this behaviour
  storage,                   \* state of the files under ./ref-layer and /opt
  mem,                       \* the caches of the memoized readers, and reads
  PERF_LIST,                 \* the module global
  class_material_dimension,  \* ToolInfo.material_dimension, the class attribute
  pc,                        \* position of the handler
  event, context,            \* the arguments of lambda_handler
  part_num, tool, feature,   \* locals of lambda_handler / get_tool_detail
  stages,                    \* the stages called for this request, in order
  row_values,                \* the rate row calc_fluting_time uses
  fl_cnt,                    \* fl_cnt1, fl_cnt2 of calc_fluting_time
  detail,                    \* fluting_dict.content['detail']
  vars_data,                 \* what get_tool_detail returns
  response,                  \* what lambda_handler returns
  probe                      \* an earlier request and its response

vars == <<gui, tool_types, pool, storage, mem, PERF_LIST, class_material_dimension, pc, event, context,
          part_num, tool, feature, stages, row_values, fl_cnt, detail, vars_data, response,
          probe>>

NoRow == [min_diameter |-> 0, max_diameter |-> 0, bur_type |-> <<>>,
          sc_fluting |-> 0, dc_fluting |-> 0, fluting_fr |-> 0, od_fr |-> 0,
          end_ct |-> 0, end_gash_ct |-> 0, end_split_ct |-> 0]

NoProbe == [has |-> FALSE, current |-> FALSE, event |-> Catalogue[1], path |-> "",
            raised |-> FALSE, response |-> NoResponse]

\* a stage call and what it returned (status 0: it raised)
Stage(fn, r) == [fn |-> fn, status_code |-> r.status_code, error_msg |-> r.error_msg]

Init ==
  /\ gui = GuiAtRest
  /\ tool_types = FamilyLists
  /\ pool \in Pools
  /\ storage \in [{"local", "opt"} -> StorageKinds]
  /\ storage.local = "ok" \/ storage.opt = "ok"
  /\ pool = "catalogue" => storage = [p \in {"local", "opt"} |-> "ok"]
  /\ mem = [access_lambda_layer |-> NoCache, get_json_from_layer |-> NoCache,
            get_xlsx_from_layer |-> NoCache, reads |-> NoCache]
  /\ PERF_LIST = <<>>
  /\ class_material_dimension = <<>>
  /\ pc = "idle"
  /\ event = Catalogue[1]
  /\ context = None
  /\ part_num = ""
  /\ tool = ToolInfo(Dec(0), Dec(0), Dec(0), Dec(0), <<>>, <<>>, <<>>)
  /\ feature = InputArgData
  /\ stages = <<>>
  /\ row_values = NoRow
  /\ fl_cnt = <<0, 0>>
  /\ detail = NoDetail
  /\ vars_data = ContentDict(900, Msg(900, ""), "get_tool_detail")
  /\ response = NoResponse
  /\ probe = NoProbe

\* the observer keeps one finished request of its choice; `current` tells
\* that the request kept is the one being handled
Capture(keep, e, c, resp, raised, old) ==
  IF keep /\ ~probe.has
  THEN probe' = [has |-> TRUE, current |-> TRUE, event |-> e, path |-> PathOf(c),
                 raised |-> raised, response |-> resp]
  ELSE probe' = old

\* lambda_handler up to the call of parse_description (lines 195-258 and
\* get_tool_detail lines 1428-1467)
Invoke(e, c) ==
  LET tool0 == ToolInfo(ZeroIfEmpty(e.Diameter), ZeroIfEmpty(e.LOC),
                        ZeroIfEmpty(e.ShankDiameter), ZeroIfEmpty(e.OAL),
                        e.FluteCount, e.Description, class_material_dimension)
      kw == ApplyKwargs(tool0, e.kwargs)
      code == EntryCode(e)
      returns == e.kwargs # NotAMapping /\ code # 900
      raises == e.kwargs = NotAMapping
  IN
  /\ pc \in {"idle", "done", "raised"}
  /\ event' = e /\ context' = c
  /\ stages' = <<>> /\ row_values' = NoRow /\ fl_cnt' = <<0, 0>> /\ detail' = NoDetail
  /\ part_num' = IF raises THEN "" ELSE PartNumOf(e.kwargs)
  /\ feature' = IF raises \/ returns THEN InputArgData ELSE FeatureOf(e.args)
  /\ tool' = IF raises \/ returns THEN tool0 ELSE kw.tool
  /\ class_material_dimension' =
       IF raises \/ returns
            \/ ~\E i \in DOMAIN e.kwargs : KeyUpper(e.kwargs[i].k) = "MAT_DIMENSION"
       THEN class_material_dimension
       ELSE ClassAttrAfterSetattr(class_material_dimension, kw.tool.material_dimension)
  /\ vars_data' = IF ~raises /\ ~returns /\ ~kw.ok
                  THEN ContentDict(200, Msg(200, kw.k), "get_tool_detail")
                  ELSE ContentDict(900, Msg(900, ""), "get_tool_detail")
  /\ response' = IF returns THEN Failure(code, Msg(code, "list")) ELSE NoResponse
  /\ pc' = IF raises THEN "raised"
           ELSE IF returns THEN "done"
           ELSE IF ~kw.ok THEN "respond" ELSE "parse"
  /\ IF raises \/ returns
     THEN \E keep \in BOOLEAN :
            Capture(keep, e, c, response', raises, [probe EXCEPT !.current = FALSE])
     ELSE probe' = [probe EXCEPT !.current = FALSE]
  /\ UNCHANGED <<gui, tool_types, pool, storage, mem, PERF_LIST>>

\* get_tool_detail line 1469: parse_description, which starts by fetching the
\* taxonomy through get_json_from_layer
ParseReturned(layer_detail, var_dict) ==
  LET failed == [status_code |-> layer_detail.status_code,
                 error_msg |-> Msg(layer_detail.status_code, layer_detail.function)]
  IN
  /\ pc = "parse"
  /\ mem' = layer_detail.mem
  /\ IF layer_detail.status_code # 900
     THEN /\ stages' = Append(stages, Stage("parse_description", failed))
          /\ vars_data' = ContentDict(failed.status_code, failed.error_msg, "parse_description")
          /\ pc' = "respond"
          /\ UNCHANGED <<tool, probe>>
     ELSE /\ stages' = Append(stages, Stage("parse_description", var_dict))
          /\ tool' = var_dict.tool
          /\ IF var_dict.raised
             THEN /\ pc' = "raised"
                  /\ UNCHANGED vars_data
                  /\ \E keep \in BOOLEAN : Capture(keep, event, context, NoResponse, TRUE, probe)
             ELSE /\ pc' = NextStage("parse_description", var_dict.status_code, feature.prep)
                  /\ vars_data' = IF var_dict.status_code = 900 THEN vars_data
                                  ELSE ContentDict(var_dict.status_code, var_dict.error_msg,
                                                   "parse_description")
                  /\ UNCHANGED probe
  /\ UNCHANGED <<gui, tool_types, pool, storage, PERF_LIST, class_material_dimension, event, context,
                 part_num, feature, row_values, fl_cnt, detail, response>>

\* get_tool_detail line 1469: the call of parse_description
ParseDescription ==
  ParseReturned(get_json_from_layer(mem, storage, context),
                parse_description(tool, feature.mm, feature.prep))

\* get_tool_detail lines 1474-1535: material dimension, PERF_LIST, the flags
\* of the description, get_family, the dimension check, router adjustments
GetFamily ==
  LET t1 == MaterialDims(tool)
      f1 == DescriptionFlags(feature, t1.tool_description)
      family_dict == get_family(tool_types, t1.formatted_description, t1.tool_description)
      t2 == [t1 EXCEPT !.tool_family = family_dict.family,
                       !.reference_family = family_dict.ref_family]
      f2 == [f1 EXCEPT !.end_type = family_dict.end_type, !.bur_cut = family_dict.bur_cut,
                       !.spiral = family_dict.spiral]
      adj == RouterAdjust(t2, f2, Json.perf_series)
      bad_dim == tool.material_dimension # <<>> /\ ~MaterialDimOk(tool)
      missing == t2.cut_diameter = 0 \/ t2.length_of_cut = 0 \/ t2.shank_diameter = 0
  IN
  /\ pc = "family"
  /\ IF bad_dim
     THEN /\ vars_data' = ContentDict(200, Msg(200, "Material dimension"), "get_tool_detail")
          /\ pc' = "respond"
          /\ UNCHANGED <<PERF_LIST, stages, tool, feature>>
     ELSE /\ PERF_LIST' = Json.perf_series
          /\ stages' = Append(stages, Stage("get_family", family_dict))
          /\ IF NextStage("get_family", family_dict.status_code, feature.prep) = "respond"
             THEN /\ vars_data' = ContentDict(family_dict.status_code, family_dict.error_msg,
                                              "get_family")
                  /\ pc' = "respond"
                  /\ tool' = t1 /\ feature' = f1
             ELSE IF missing
             THEN /\ vars_data' = ContentDict(206, Msg(206, ""), "get_tool_detail")
                  /\ pc' = "respond"
                  /\ tool' = t2 /\ feature' = f2
             ELSE /\ UNCHANGED vars_data
                  /\ tool' = adj.tool /\ feature' = adj.feature
                  /\ pc' = NextStage("get_family", family_dict.status_code, feature.prep)
  /\ UNCHANGED <<gui, tool_types, pool, storage, mem, class_material_dimension, event, context, part_num,
                 row_values, fl_cnt, detail, response, probe>>

\* get_tool_detail lines 1537-1542
PrepReturned(excel_layer, prep_dict) ==
  /\ pc = "prep"
  /\ mem' = excel_layer.mem
  /\ stages' = Append(stages, Stage("calc_prep_time", prep_dict))
  /\ tool' = prep_dict.tool
  /\ IF prep_dict.raised
     THEN /\ pc' = "raised"
          /\ UNCHANGED vars_data
          /\ \E keep \in BOOLEAN : Capture(keep, event, context, NoResponse, TRUE, probe)
     ELSE /\ pc' = NextStage("calc_prep_time", prep_dict.status_code, feature.prep)
          /\ vars_data' = IF prep_dict.status_code = 900 THEN vars_data
                          ELSE ContentDict(prep_dict.status_code, prep_dict.error_msg,
                                           prep_dict.function)
          /\ UNCHANGED probe
  /\ UNCHANGED <<gui, tool_types, pool, storage, PERF_LIST, class_material_dimension, event, context,
                 part_num, feature, row_values, fl_cnt, detail, response>>

\* get_tool_detail lines 1537-1542: the call of calc_prep_time
CalcPrepTime ==
  PrepReturned(get_xlsx_from_layer(get_json_from_layer(mem, storage, context).mem,
                                   storage, context),
               calc_prep_time(tool, feature.double_end))

\* get_tool_detail lines 1544-1551
FlutingReturned(fc, excel_data, sel, fluting_dict) ==
  LET counted == fc.status_code = 900 IN
  /\ pc = "fluting"
  /\ mem' = IF counted THEN excel_data.mem ELSE mem
  /\ stages' = Append(stages, Stage("calc_fluting_time", fluting_dict))
  /\ row_values' = IF counted /\ excel_data.status_code = 900 /\ sel.status_code = 900
                      /\ sel.rows # <<>>
                   THEN FirstRow(sel.rows) ELSE NoRow
  /\ fl_cnt' = <<fc.fl_cnt1, fc.fl_cnt2>>
  /\ tool' = fluting_dict.tool
  /\ detail' = fluting_dict.detail
  /\ IF fluting_dict.raised
     THEN /\ pc' = "raised"
          /\ UNCHANGED vars_data
          /\ \E keep \in BOOLEAN : Capture(keep, event, context, NoResponse, TRUE, probe)
     ELSE /\ pc' = NextStage("calc_fluting_time", fluting_dict.status_code, feature.prep)
          /\ vars_data' = IF fluting_dict.status_code = 900
                          THEN ContentDict(900, Msg(900, ""), "get_tool_detail")
                          ELSE ContentDict(fluting_dict.status_code, fluting_dict.error_msg,
                                           fluting_dict.function)
          /\ UNCHANGED probe
  /\ UNCHANGED <<gui, tool_types, pool, storage, PERF_LIST, class_material_dimension, event, context,
                 part_num, feature, response>>

\* get_tool_detail lines 1544-1551: the call of calc_fluting_time
CalcFlutingTime ==
  FlutingReturned(ParseFluteCount(tool.flute_count),
                  get_xlsx_from_layer(mem, storage, context),
                  SelectRows(tool, tool.tool_family, tool.reference_family),
                  calc_fluting_time(tool, feature, PERF_LIST,
                                    get_xlsx_from_layer(mem, storage, context)))

\* lambda_handler lines 260-312
Respond ==
  /\ pc = "respond"
  /\ response' = IF vars_data.status_code # 900
                 THEN Failure(vars_data.status_code, vars_data.error_msg)
                 ELSE Success(part_num, tool, detail)
  /\ pc' = "done"
  /\ UNCHANGED <<gui, tool_types, pool, storage, mem, PERF_LIST, class_material_dimension, event, context,
                 part_num, tool, feature, stages, row_values, fl_cnt, detail, vars_data>>
  /\ \E keep \in BOOLEAN : Capture(keep, event, context, response', FALSE, probe)

Next ==
  \/ \E e \in Events(pool), c \in PoolContexts(pool) : Invoke(e, c)
  \/ ParseDescription
  \/ GetFamily
  \/ CalcPrepTime
  \/ CalcFlutingTime
  \/ Respond

Spec == Init /\ [][Next]_vars

(***************************************************************************)
(* get_family on its own: get_tool_detail calls it with lists, a base      *)
(* description and a split description taken from the sets below.  The     *)
(* lists of OverlappingLists share every phrase with the next list.        *)
(***************************************************************************)
OverlappingLists ==
  [EM |-> {<<"SQ", "EM">>, <<"WR">>},
   WR |-> {<<"WR">>, <<"DRILL">>},
   DRILL |-> {<<"DRILL">>, <<"FISHTAIL", "FBGR">>},
   FBGR |-> {<<"FISHTAIL", "FBGR">>, <<"O-FLUTE", "WR">>},
   O_FLUTE |-> {<<"O-FLUTE", "WR">>, <<"COMP", "WR">>},
   WR_COMP |-> {<<"COMP", "WR">>, <<"OVAL">>},
   BUR |-> {<<"OVAL">>, <<"SQ">>, <<"WR">>},
   bur_cut_types |-> <<"SC", "DC", "FM">>]

NoCutLists == [FamilyLists EXCEPT !.bur_cut_types = <<>>]

FamilyListChoices == {FamilyLists, OverlappingLists, NoCutLists}

BaseDescriptions ==
  {<<"SQ", "EM">>, <<"WR">>, <<"DRILL">>, <<"FISHTAIL", "FBGR">>, <<"O-FLUTE", "WR">>,
   <<"COMP", "WR">>, <<"OVAL">>, <<"TREE", "OVAL">>, <<"OVAL", "DRILL">>,
   <<"DRILLMILL">>, <<"WIDGET">>, <<>>}

SplitDescriptions ==
  {<<W("OVAL"), W("DC")>>, <<W("OVAL"), W("DC"), W("SC")>>,
   <<W("OVAL"), W("FM"), W("SPIRAL")>>, <<W("OVAL")>>,
   <<QuarterDims, W("FISHTAIL"), W("FBGR")>>, <<>>}

\* get_tool_detail stands before line 1474 with a parsed tool
InitFamily ==
  /\ gui = GuiAtRest
  /\ tool_types \in FamilyListChoices
  /\ pool = "get_family"
  /\ storage = [p \in {"local", "opt"} |-> "ok"]
  /\ mem = [access_lambda_layer |-> NoCache, get_json_from_layer |-> NoCache,
            get_xlsx_from_layer |-> NoCache, reads |-> NoCache]
  /\ PERF_LIST = <<>>
  /\ class_material_dimension = <<>>
  /\ pc = "family"
  /\ event = Catalogue[1]
  /\ context = None
  /\ part_num = ""
  /\ \E b \in BaseDescriptions, sd \in SplitDescriptions :
       tool = [ToolInfo(2500, 5000, 2500, 20000, <<"4">>, sd, <<>>)
                 EXCEPT !.formatted_description = b]
  /\ feature = InputArgData
  /\ stages = <<>>
  /\ row_values = NoRow
  /\ fl_cnt = <<0, 0>>
  /\ detail = NoDetail
  /\ vars_data = ContentDict(900, Msg(900, ""), "get_tool_detail")
  /\ response = NoResponse
  /\ probe = NoProbe

NextFamily == GetFamily

SpecFamily == InitFamily /\ [][NextFamily]_vars

(***************************************************************************)
(* The batch of the desktop form: "Mass Calc" is clicked with a sheet       *)
(* "Test" of at most MaxRows rows.  ref_df is Undefined in a fresh process  *)
(* and a sheet after an earlier calculation.                               *)
(***************************************************************************)
MaxRows == 3

TestRows ==
  { MassRow(<<"SQ", "EM">>, "A1", 2500, 7500, 4),
    MassRow(<<"BALL", "V4", "EM">>, "A2", 5000, 10000, 2),
    MassRow(<<"FACE", "MILL">>, "A3", 2500, 7500, 4),
    MassRow(<<"SQ", "EM">>, "A4", 30000, 7500, 4),
    MassRow(<<"SQ", "EM">>, "A5", 2500, 0, 4),
    MassRow(<<"SQ", "EM">>, "A6", NaN, 7500, 4),
    MassRow(<<"WOOD", "ROUTER">>, "A7", 2500, 7500, 2),
    MassRow(<<"CR", "ALUMAZIP", "EM">>, "A8", 2500, 7500, 3) }

RECURSIVE SeqsUpTo(_, _)
SeqsUpTo(S, n) ==
  IF n = 0 THEN {<<>>}
  ELSE LET shorter == SeqsUpTo(S, n - 1)
       IN shorter \cup {Append(q, x) : q \in shorter, x \in S}

Workbooks ==
  { [exists |-> TRUE, sheets |-> {<<"SQ", "EM">>, <<"WOOD", "ROUTER">>}],
    [exists |-> TRUE, sheets |-> {<<"SQ", "EM">>}],
    [exists |-> TRUE, sheets |-> {}],
    [exists |-> FALSE, sheets |-> {}] }

InitBatch ==
  /\ \E w \in Workbooks, df \in SeqsUpTo(TestRows, MaxRows),
        r \in {Undefined, <<"SQ", "EM">>}, u \in {"in", "mm"} :
       gui = [GuiAtRest EXCEPT !.workbook = w, !.mass_calc_df = df, !.ref_df = r,
                               !.form = [unit |-> u, tert |-> FALSE]]
  /\ tool_types = FamilyLists
  /\ pool = "catalogue"
  /\ storage = [p \in {"local", "opt"} |-> "ok"]
  /\ mem = [access_lambda_layer |-> NoCache, get_json_from_layer |-> NoCache,
            get_xlsx_from_layer |-> NoCache, reads |-> NoCache]
  /\ PERF_LIST = <<>>
  /\ class_material_dimension = <<>>
  /\ pc = "idle"
  /\ event = Catalogue[1]
  /\ context = None
  /\ part_num = ""
  /\ tool = ToolInfo(Dec(0), Dec(0), Dec(0), Dec(0), <<>>, <<>>, <<>>)
  /\ feature = InputArgData
  /\ stages = <<>>
  /\ row_values = NoRow
  /\ fl_cnt = <<0, 0>>
  /\ detail = NoDetail
  /\ vars_data = ContentDict(900, Msg(900, ""), "get_tool_detail")
  /\ response = NoResponse
  /\ probe = NoProbe

Lambda == <<tool_types, pool, storage, mem, PERF_LIST, class_material_dimension, pc, event,
            context, part_num, tool, feature, stages, row_values, fl_cnt, detail, vars_data,
            response, probe>>

\* on_mass_calc_click and get_cycle_time up to the loop (lines 53-57, 63-75,
\* 296-302): without the workbook, or with an empty sheet, get_mass_calc_xl
\* returns nothing and iterrows() raises
MassCalcClick ==
  /\ gui.pc = "idle"
  /\ gui' = IF ~gui.workbook.exists \/ gui.mass_calc_df = <<>>
            THEN [gui EXCEPT !.pc = "raised", !.mass_calc = TRUE]
            ELSE [gui EXCEPT !.pc = "loop", !.mass_calc = TRUE, !.index = 1,
                             !.result_df = <<>>]
  /\ UNCHANGED Lambda

\* get_cycle_time lines 302-315: one turn of the loop
NextRow ==
  LET row == gui.mass_calc_df[gui.index]
      chk == check_tool_type(gui.workbook, gui.ref_df, row.Tool_Type)
      result == calc_cycle_time(gui.form, chk.ref_df, row.Diameter, row.Length_of_Cut,
                                row.Flute_Count, row.Tool_Type)
  IN
  /\ gui.pc = "loop" /\ gui.index <= Len(gui.mass_calc_df)
  /\ gui' =
       IF row.Diameter = NaN THEN [gui EXCEPT !.index = @ + 1]
       ELSE IF chk.zero THEN [gui EXCEPT !.pc = "returned", !.ref_df = chk.ref_df]
       ELSE IF NameErrorAt(chk.ref_df, row.Diameter, row.Length_of_Cut, row.Flute_Count)
       THEN [gui EXCEPT !.pc = "raised"]
       ELSE IF ~result.found THEN [gui EXCEPT !.index = @ + 1, !.ref_df = chk.ref_df]
       ELSE [gui EXCEPT !.index = @ + 1, !.ref_df = chk.ref_df,
                        !.result_df = [i \in DOMAIN @ \cup {gui.index} |->
                                         IF i = gui.index
                                         THEN [row |-> row, result |-> result]
                                         ELSE @[i]]]
  /\ UNCHANGED Lambda

\* get_cycle_time lines 316-329: the results go to the file if it is there
\* and can be written
StoreResults ==
  /\ gui.pc = "loop" /\ gui.index > Len(gui.mass_calc_df)
  /\ \E written \in BOOLEAN :
       gui' = [gui EXCEPT !.pc = IF written THEN "stored" ELSE "not stored"]
  /\ UNCHANGED Lambda

NextBatch ==
  \/ MassCalcClick
  \/ NextRow
  \/ StoreResults

SpecBatch == InitBatch /\ [][NextBatch]_vars

(***************************************************************************)
(* Properties.                                                             *)
(***************************************************************************)
Answered == pc = "done"

Succeeded == Answered /\ response.statusCode = 900

PrepRequested == \E i \in DOMAIN event.args : event.args[i] = "PREP"

LastStage == stages[Len(stages)]

\* C1: every response with statusCode 900 carries
\* TotalCycleTime = round(CycleTime + PrepTime, 3) of the same response.
C1_TotalIsRoundedSum ==
  Succeeded =>
    /\ response.has_body
    /\ response.body.TotalCycleTime
         = Round3(response.body.CycleTime + response.body.PrepTime)

\* a success that carries both a fluting time and a prep time
C1_Witness ==
  Succeeded /\ response.body.CycleTime > 0 /\ response.body.PrepTime > 0

\* C2 as stated: an empty Description gives 204 and runs no stage, whatever
\* the other fields of the request are and whether they are present.
C2_EmptyDescriptionAlways204 ==
  (pc # "idle" /\ event.Description = <<>>) =>
    (Answered /\ response.statusCode = 204 /\ stages = <<>>)

\* C2, amended: when the six required keys are present and kwargs is a
\* mapping, an empty Description gives 204 and runs no stage, whatever the
\* values of the other fields.
C2_EmptyDescription204 ==
  (pc # "idle" /\ event.Description = <<>> /\ event.missing = {}
     /\ event.kwargs # NotAMapping) =>
    (Answered /\ response.statusCode = 204 /\ ~response.has_body /\ stages = <<>>)

\* an empty description with empty numeric fields and PREP requested
C2_Witness ==
  /\ Answered /\ event.Description = <<>> /\ event.missing = {}
  /\ event.Diameter = EmptyText /\ PrepRequested
  /\ response.statusCode = 204

\* C3: a request whose kwargs is a mapping never ends in an uncaught
\* exception; it is answered with a statusCode of STATUS_CODE.
C3_AlwaysCodedResponse ==
  /\ event.kwargs # NotAMapping => pc # "raised"
  /\ Answered => response.statusCode \in STATUS_CODE

\* the stages a request goes through when none fails
StageOrder ==
  IF PrepRequested
  THEN <<"parse_description", "get_family", "calc_prep_time", "calc_fluting_time">>
  ELSE <<"parse_description", "get_family", "calc_fluting_time">>

\* C4: the stages called are a prefix of parse_description, get_family,
\* calc_prep_time (only with PREP), calc_fluting_time; a stage is called only
\* after all earlier ones returned 900; a response after a failing stage has
\* the statusCode and errorMessage of that stage; a success has run them all.
C4_StagesShortCircuit ==
  /\ Len(stages) <= Len(StageOrder)
  /\ \A i \in DOMAIN stages : stages[i].fn = StageOrder[i]
  /\ \A i \in DOMAIN stages : i < Len(stages) => stages[i].status_code = 900
  /\ (Answered /\ stages # <<>> /\ LastStage.status_code # 900) =>
       /\ response.statusCode = LastStage.status_code
       /\ response.errorMessage = LastStage.error_msg
       /\ ~response.has_body
  /\ Succeeded => Len(stages) = Len(StageOrder)

\* calc_prep_time fails as the third stage and the response carries its code
C4_Witness ==
  /\ Answered /\ Len(stages) = 3
  /\ LastStage.fn = "calc_prep_time" /\ LastStage.status_code = 211
  /\ response.statusCode = 211

\* C5: no response with statusCode 900 has CycleTime 0; calc_fluting_time
\* returns 401 instead of 900 when its time is 0, and the request fails 401.
C5_NoZeroCycleTime ==
  /\ Succeeded => response.body.CycleTime # 0
  /\ (stages # <<>> /\ LastStage.fn = "calc_fluting_time") =>
       /\ LastStage.status_code = 900 => tool.fluting_cycle_time # 0
       /\ (Answered /\ LastStage.status_code = 401) => response.statusCode = 401

\* a rate row was found, the time came out as 0 and the request failed 401
C5_Witness ==
  /\ Answered /\ response.statusCode = 401
  /\ row_values # NoRow /\ LastStage.fn = "calc_fluting_time"

FluteStageRan == stages # <<>> /\ LastStage.fn = "calc_fluting_time"

SlashAt(text) == {i \in DOMAIN text : text[i] = "/"}

Left(text, i) == SubSeq(text, 1, i - 1)

Right(text, i) == SubSeq(text, i + 1, Len(text))

\* "N/M" with integers N and M
IsPair(text) ==
  \E i \in DOMAIN text :
    SlashAt(text) = {i} /\ IntOk(Left(text, i)) /\ IntOk(Right(text, i))

FluteCodes == {202, 203, 307}

\* C6: in calc_fluting_time "N/M" gives the counts (N, M) and "N" gives
\* (N, 1); an empty flute count is a 307, which no stage gets past; any other
\* text is a 202 when it has a slash and a 203 when it has none.
C6_FluteCountParsing ==
  /\ ParseFluteCount(<<>>).status_code = 307
  /\ (stages # <<>> /\ tool.flute_count = <<>>) => LastStage.status_code # 900
  /\ FluteStageRan =>
       LET text == tool.flute_count IN
       /\ \A i \in DOMAIN text :
            (SlashAt(text) = {i} /\ IntOk(Left(text, i)) /\ IntOk(Right(text, i))) =>
               /\ fl_cnt = <<IntVal(Left(text, i)), IntVal(Right(text, i))>>
               /\ LastStage.status_code \notin FluteCodes
       /\ IntOk(text) =>
            /\ fl_cnt = <<IntVal(text), 1>>
            /\ LastStage.status_code \notin FluteCodes
       /\ text = <<>> => LastStage.status_code = 307
       /\ (text # <<>> /\ ~IntOk(text) /\ ~IsPair(text)) =>
            /\ LastStage.status_code = IF SlashAt(text) # {} THEN 202 ELSE 203
            /\ Answered => response.statusCode = LastStage.status_code

\* "8/5" was read as 8 and 5
C6_Witness ==
  FluteStageRan /\ tool.flute_count = <<"8", "/", "5">> /\ fl_cnt = <<8, 5>>

RefSheet == IF tool.reference_family = "BUR" THEN SheetBUR ELSE SheetEM

\* calc_fluting_time got as far as looking for the rate row
RowsLookedUp ==
  FluteStageRan /\ LastStage.status_code \notin FluteCodes \cup {101, 102, 500}

Containing(cut_dia) == {i \in DOMAIN RefSheet : InRange(RefSheet[i], cut_dia)}

Lowest(S) == CHOOSE i \in S : \A j \in S : i <= j

ByShape ==
  \/ tool.tool_family = "FBGR"
  \/ InSplit("DIEMILL", tool.tool_description)
  \/ PhraseIn(<<"TIRE", "BUR">>, tool.formatted_description)

ShapeNamed == BurTypeMatch(RefSheet, tool.bur_description)

LookupDiameter ==
  IF tool.tool_family = "DRILL" /\ tool.cut_diameter > 8500
  THEN 8500 ELSE tool.cut_diameter

\* the rows the family looks among
Eligible ==
  IF ByShape
  THEN {i \in Containing(tool.cut_diameter) :
          \/ RefSheet[i].bur_type = <<"CYLINDER", "NOENDCUT">>
          \/ /\ PhraseIn(<<"TIRE", "BUR">>, tool.formatted_description)
             /\ RefSheet[i].bur_type = <<"INCLUDED", "POINTED", "CONE">>}
  ELSE IF tool.tool_family = "BUR"
  THEN {i \in Containing(tool.cut_diameter) : RefSheet[i].bur_type = ShapeNamed}
  ELSE Containing(LookupDiameter)

NeckTokens == {i \in DOMAIN event.Description : event.Description[i].k = "neck"}

\* a neck written as diameter X length
PlainNeck(i) == ~event.Description[i].deg /\ ~event.Description[i].tap

PrepCalled == \E i \in DOMAIN stages : stages[i].fn = "calc_prep_time"

\* C8 as stated: a request with a neck dimension and without PREP is answered
\* with PrepTime 0 and an empty PrepType, its neck diameter and neck length
\* are in the tool record, and calc_prep_time is not called.
C8_NeckWithoutPrepAlways ==
  (pc \in {"done", "raised"} /\ NeckTokens # {} /\ ~PrepRequested) =>
    /\ Answered /\ response.has_body
    /\ response.body.PrepTime = 0 /\ response.body.PrepType = <<>>
    /\ \A i \in NeckTokens :
         /\ tool.neck_diameter = EvalNum(event.Description[i].x)
         /\ tool.neck_length = EvalNum(event.Description[i].y)
    /\ ~PrepCalled

\* C8, amended: for a request with a neck dimension and without PREP,
\* calc_prep_time is never called and the prep time stays 0; once
\* parse_description has returned 900 a neck written as diameter X length is
\* in the tool record; a success carries PrepTime 0 and an empty PrepType.
C8_NeckWithoutPrep ==
  (pc # "idle" /\ NeckTokens # {} /\ ~PrepRequested) =>
    /\ ~PrepCalled
    /\ tool.prep_cycle_time = 0 /\ tool.prep_type = <<>>
    /\ (stages # <<>> /\ stages[1].status_code = 900) =>
         \A i \in NeckTokens :
           PlainNeck(i) =>
             /\ tool.neck_diameter = EvalNum(event.Description[i].x)
             /\ tool.neck_length = EvalNum(event.Description[i].y)
    /\ Succeeded =>
         /\ response.body.PrepTime = 0
         /\ response.body.PrepType = <<>>

\* a bur with a .113 X .6395 neck, answered without PREP
C8_Witness ==
  /\ Succeeded /\ ~PrepRequested
  /\ \E i \in NeckTokens : PlainNeck(i)
  /\ tool.neck_diameter = 1130 /\ tool.neck_length = 6395
  /\ response.body.PrepTime = 0 /\ response.body.CycleTime > 0

Finished == pc \in {"done", "raised"}

\* an earlier request is handled again, with the files of the same path
Repeated ==
  /\ probe.has /\ ~probe.current /\ Finished
  /\ event = probe.event /\ PathOf(context) = probe.path

\* C9: a request handled again in the same process ends as it ended before:
\* with the same response, or with an exception as before.
C9_SameRequestSameResponse ==
  Repeated =>
    /\ (pc = "raised") = probe.raised
    /\ pc = "done" => response = probe.response

\* a request with PREP is handled a second time and succeeds again
C9_Witness ==
  /\ Repeated /\ Succeeded /\ PrepRequested
  /\ response.body.PrepTime > 0
  /\ PERF_LIST # <<>>

\* C10: the reference files under a path are read at most once by the
\* process, whatever context handles the requests come with.
C10_FilesReadOnce ==
  /\ \A c \in Contexts : mem.reads[c] <= 1
  /\ \A c1, c2 \in Contexts :
       (c1 # c2 /\ PathOf(c1) = PathOf(c2)) => mem.reads[c1] + mem.reads[c2] <= 1

PartNumKeys == {i \in DOMAIN event.kwargs : KeyLower(event.kwargs[i].k) = "part_num"}

\* C11: a response with statusCode 900 carries in PartNumber the value of the
\* PART_NUM key of kwargs, wherever the key stands among the keys of kwargs
\* and in whatever letter case it is written.
C11_PartNumberEchoed ==
  (Succeeded /\ event.kwargs # NotAMapping) =>
    \A i \in PartNumKeys : response.body.PartNumber = event.kwargs[i].str

RecognizedKeys == {"PART_NUM", "MATERIAL", "MAT_DIMENSION", "TIP_DIAMETER", "TAPERED_NECK_DIA"}

FloatKeys == {"TIP_DIAMETER", "TAPERED_NECK_DIA"}

\* the keyword arguments whose value float() does not convert
BadKw ==
  {i \in DOMAIN event.kwargs :
     /\ KeyUpper(event.kwargs[i].k) \in FloatKeys
     /\ ~(Len(event.kwargs[i].segs) = 1 /\ event.kwargs[i].segs[1].form = "dec")}

\* the last keyword argument that sets the same field as argument i
LastFor(i) ==
  CHOOSE j \in DOMAIN event.kwargs :
    /\ KeyUpper(event.kwargs[j].k) = KeyUpper(event.kwargs[i].k)
    /\ \A m \in DOMAIN event.kwargs :
         KeyUpper(event.kwargs[m].k) = KeyUpper(event.kwargs[i].k) => m <= j

\* the request got as far as get_tool_detail
Detailed == pc # "idle" /\ event.kwargs # NotAMapping /\ EntryCode(event) = 900

\* C12: a recognized key of kwargs sets its field of the tool record to the
\* value converted to the type of the field (a float for TIP_DIAMETER and
\* TAPERED_NECK_DIA, a string for the others); a value that does not convert
\* fails the request with 200 and no stage is called; a key that is not
\* recognized changes nothing and fails nothing.
C12_KwargsCoerced ==
  Detailed =>
    IF BadKw # {}
    THEN /\ stages = <<>> /\ pc \in {"respond", "done"}
         /\ vars_data.status_code = 200
         /\ Answered => (response.statusCode = 200 /\ ~response.has_body)
    ELSE /\ stages = <<>> => (pc = "parse" /\ vars_data.status_code = 900)
         /\ pc = "parse" =>
              /\ \A i \in DOMAIN event.kwargs :
                   LET kw == event.kwargs[LastFor(i)] IN
                   /\ KeyUpper(kw.k) \in FloatKeys =>
                        tool[KwAttr(kw.k)] = kw.segs[1].n
                   /\ KeyUpper(kw.k) \in {"PART_NUM", "MATERIAL"} =>
                        tool[KwAttr(kw.k)] = kw.str
                   /\ KeyUpper(kw.k) = "MAT_DIMENSION" =>
                        tool.material_dimension = kw.segs
              /\ \A f \in {"part_number", "material", "tip_diameter",
                             "tapered_neck_diameter"} :
                   (\A i \in DOMAIN event.kwargs : KwAttr(event.kwargs[i].k) # f) =>
                      tool[f] = ToolInfo(Dec(0), Dec(0), Dec(0), Dec(0), <<>>, <<>>, <<>>)[f]

\* TIP_DIAMETER "1/2" does not convert: 200, and no stage was called
C12_Witness ==
  /\ Answered /\ Detailed /\ BadKw # {}
  /\ response.statusCode = 200 /\ stages = <<>>

HasArg(a) == \E i \in DOMAIN event.args : event.args[i] = a

\* C13 as stated: the Detail of a success is the report when DETAIL is given
\* and in the default mode (neither DETAIL nor MASS), and the tuple of
\* numbers when MASS is given without DETAIL.
C13_ReportByDefault ==
  Succeeded =>
    response.body.Detail.kind =
      IF HasArg("MASS") /\ ~HasArg("DETAIL") THEN "feature_list" ELSE "detail_print"

\* C13, amended: the Detail of a success is the report exactly when DETAIL is
\* given (with or without MASS), the tuple of numbers when MASS is given
\* without DETAIL, and the plain description when neither is given, which is
\* the default; nothing else of the request has a say in it.
C13_DetailShapeByMode ==
  Succeeded =>
    /\ response.body.Detail.kind =
         IF HasArg("DETAIL") THEN "detail_print"
         ELSE IF HasArg("MASS") THEN "feature_list" ELSE "description"
    /\ response.body.Detail.kind = "description" =>
         /\ response.body.Detail.parts = NoDetail.parts
         /\ response.body.Detail.time = 0

\* DETAIL and MASS together: the report
C13_Witness ==
  /\ Succeeded /\ HasArg("DETAIL") /\ HasArg("MASS")
  /\ response.body.Detail.kind = "detail_print"
  /\ response.body.Detail.time = response.body.CycleTime

FluteTokens == {i \in DOMAIN event.Description : event.Description[i].k = "fl"}

\* the count written in the last <N>FL token of the description
WrittenCount ==
  DigitsOf(event.Description[CHOOSE i \in FluteTokens : \A j \in FluteTokens : j <= i].n)

Parsed == stages # <<>> /\ stages[1].status_code = 900

\* C14 as stated: after parse_description the flute count of the record is
\* the N of the <N>FL token of the description when there is one, and the
\* FluteCount of the request, unchanged, when there is none.
C14_TokenOrRequestCount ==
  Parsed =>
    tool.flute_count = IF FluteTokens # {} THEN WrittenCount ELSE event.FluteCount

\* "2FL" is put in front of a description that names one of these tools and
\* has no "FL" in it
DefaultFlutes ==
  /\ \E m \in {"SPADE", "SPOTTING", "DRILL&COUNTERSINK"} : InStr(m, event.Description)
  /\ ~InStr("FL", event.Description)

ParsedCount ==
  IF FluteTokens # {} THEN WrittenCount
  ELSE IF DefaultFlutes THEN <<"2">> ELSE event.FluteCount

\* the count the calculation works with
UsedCount ==
  IF tool.tool_family \in ROUTER_FAM /\ ParsedCount = <<"1">> THEN <<"2">> ELSE ParsedCount

\* C14, amended: parse_description leaves in the record the N of the last
\* <N>FL token of the description, which takes precedence over the
\* FluteCount of the request; without a token it leaves 2 for a SPADE,
\* SPOTTING or DRILL&COUNTERSINK description that has no "FL" in it, and the
\* FluteCount of the request otherwise.  Afterwards only the router families
\* change it: their count of 1 is treated as 2.
C14_FluteCountPrecedence ==
  Parsed =>
    /\ Len(stages) = 1 => tool.flute_count = ParsedCount
    /\ tool.flute_count \in {ParsedCount, UsedCount}
    /\ FluteStageRan => tool.flute_count = UsedCount
    /\ Succeeded => response.body.FluteCount = UsedCount

\* "3FL ... 5FL" with FluteCount "4": the answer carries 5
C14_Witness ==
  /\ Succeeded /\ FluteTokens # {}
  /\ event.FluteCount = <<"4">> /\ WrittenCount = <<"5">>
  /\ response.body.FluteCount = <<"5">> /\ fl_cnt = <<5, 1>>

ExactRules == <<"EM", "WR", "DRILL", "FBGR", "O_FLUTE", "WR_COMP">>

ExactFamilies == <<"EM", "WR", "DRILL", "FBGR", "O-FLUTE", "WR COMP">>

\* the exact-membership rules the base description matches
ExactHits ==
  {i \in DOMAIN ExactRules : tool.formatted_description \in tool_types[ExactRules[i]]}

BurRule ==
  /\ \E x \in tool_types.BUR : PhraseIn(x, tool.formatted_description)
  /\ ~PhraseIn(<<"DRILL">>, tool.formatted_description)

\* the cut types, by their place in the list, that are words of the description
CutsFound ==
  {i \in DOMAIN tool_types.bur_cut_types :
     InSplit(tool_types.bur_cut_types[i], tool.tool_description)}

FamilyReturned == stages # <<>> /\ LastStage.fn = "get_family"

\* C15: get_family answers with the family of the first rule, in the order
\* EM, WR, DRILL, FBGR, O-FLUTE, WR COMP, whose set holds the base
\* description; failing these, a base description that contains a bur shape
\* and not DRILL is a BUR whose burCut is the first cut type of the ordered
\* list that is a word of the description, 302 when there is none; a base
\* description that matches no rule is a 301.
C15_RuleOrder ==
  FamilyReturned =>
    IF ExactHits # {}
    THEN /\ LastStage.status_code = 900
         /\ tool.tool_family = ExactFamilies[Lowest(ExactHits)]
         /\ feature.bur_cut = ""
    ELSE IF BurRule
    THEN IF CutsFound # {}
         THEN /\ LastStage.status_code = 900
              /\ tool.tool_family = "BUR"
              /\ feature.bur_cut = tool_types.bur_cut_types[Lowest(CutsFound)]
         ELSE LastStage.status_code = 302 /\ vars_data.status_code = 302
    ELSE LastStage.status_code = 301 /\ vars_data.status_code = 301

\* "OVAL DC SC" for the base description TREE OVAL, with the cut types
\* listed as SC, DC, FM: no exact rule matches, the bur rule does, and the
\* cut is SC although DC stands first in the description
C15_Witness ==
  /\ FamilyReturned
  /\ ExactHits = {} /\ BurRule /\ CutsFound = {1, 2}
  /\ tool.tool_description[2].w = "DC"
  /\ tool.tool_family = "BUR" /\ feature.bur_cut = "SC"

DimTokens == {i \in DOMAIN event.Description : event.Description[i].k = "dim"}

\* the numbers of the first dimension text of the description
FullDim == event.Description[Lowest(DimTokens)].segs

\* full_dim.count("x"): the numbers that stand before the overall length
XCnt == Len(FullDim) - 1

\* millimeters are given: the MM option, or a corner radius written "xMM CR"
MetricGiven ==
  \/ HasArg("MM")
  \/ \E i \in DOMAIN event.Description :
       event.Description[i].k = "crv" /\ event.Description[i].tap

\* full_dim: the dimension text, or the text made of the four fields
Dimensions ==
  IF DimTokens # {} THEN FullDim
  ELSE <<ZeroIfEmpty(event.Diameter), ZeroIfEmpty(event.LOC),
         ZeroIfEmpty(event.ShankDiameter), ZeroIfEmpty(event.OAL)>>

\* "/" in full_dim
Fraction == \E i \in DOMAIN Dimensions : Dimensions[i].form \in {"frac", "mixed"}

\* the overall length as written
WrittenOAL == EvalNum(Dimensions[Len(Dimensions)])

\* the record of this request is converted from millimeters
Metric == MetricGiven \/ (~Fraction /\ WrittenOAL > MM_CUTOFF)

\* a length of the description as the record holds it
Held(v) == IF Metric /\ v # 0 THEN RoundDiv(v * 10, 254) ELSE v

\* the codes parse_description returns before it looks at the dimensions
\* (0: an exception)
BeforeDimensions == {0, 101, 102, 500, 207, 209, 307}

\* C16: of the numbers of the dimension text the last is the overall length
\* and the first the cut diameter; with two numbers before the overall
\* length the second is the shank diameter (and the length of cut stays the
\* one of the request), with three they are diameter, length of cut, shank
\* diameter, with four diameter, length of cut, a number that is skipped,
\* shank diameter; any other count is a 205.
C16_DimensionOrder ==
  (stages # <<>> /\ DimTokens # {}) =>
    /\ Parsed =>
         /\ XCnt \in {2, 3, 4}
         /\ tool.overall_length = Held(EvalNum(FullDim[XCnt + 1]))
         /\ tool.cut_diameter = Held(EvalNum(FullDim[1]))
         /\ XCnt = 2 =>
              /\ tool.shank_diameter = Held(EvalNum(FullDim[2]))
              /\ tool.length_of_cut = Held(EvalNum(ZeroIfEmpty(event.LOC)))
         /\ XCnt = 3 =>
              /\ tool.length_of_cut = Held(EvalNum(FullDim[2]))
              /\ tool.shank_diameter = Held(EvalNum(FullDim[3]))
         /\ XCnt = 4 =>
              /\ tool.length_of_cut = Held(EvalNum(FullDim[2]))
              /\ tool.shank_diameter = Held(EvalNum(FullDim[4]))
    /\ (XCnt \notin {2, 3, 4} /\ \A i \in DOMAIN FullDim : EvalOk(FullDim[i])) =>
         /\ stages[1].status_code \in BeforeDimensions \cup {205}
         /\ Len(stages) = 1
         /\ Answered => (response.statusCode = stages[1].status_code /\ ~response.has_body)

\* ".25X.5X.125X.375X2.5": the third number is skipped, the shank is .375
C16_Witness ==
  /\ Succeeded /\ DimTokens # {} /\ XCnt = 4
  /\ FullDim[3] # FullDim[4]
  /\ response.body.ShankDiameter = 3750 /\ response.body.OAL = 25000
  /\ response.body.LOC = 5000 /\ response.body.Diameter = 2500

ParseReturnedCode == stages # <<>> /\ stages[1].fn = "parse_description"

\* parse_description came to the look at the units (lines 708-715)
UnitsLookedAt ==
  /\ ParseReturnedCode
  /\ stages[1].status_code \notin BeforeDimensions \cup {205}
  /\ \A i \in DOMAIN Dimensions : EvalOk(Dimensions[i])

\* C17 as stated: a request whose dimension text holds a fraction and for
\* which millimeters are given, or would be inferred from an overall length
\* above 20.0, fails with 208.
C17_FractionAlways208 ==
  (UnitsLookedAt /\ Fraction /\ (MetricGiven \/ WrittenOAL > MM_CUTOFF)) =>
    /\ stages[1].status_code = 208
    /\ Answered => response.statusCode = 208

\* C17, amended: millimeters are inferred when the overall length exceeds
\* 20.0, no unit was given and the dimension text holds no fraction.  A text
\* with a fraction is never inferred to be millimeters and never converted,
\* whatever its overall length: without a unit given it is taken as inches.
\* With a fraction and millimeters given (the MM option or an "xMM CR") the
\* request never succeeds: parse_description returns 208 when it comes to
\* the look at the units.  208 is returned in no other case.
C17_UnitInference ==
  ParseReturnedCode =>
    /\ stages[1].status_code = 208 => (Fraction /\ MetricGiven)
    /\ (Fraction /\ MetricGiven) =>
         /\ ~Parsed
         /\ UnitsLookedAt => stages[1].status_code = 208
         /\ (UnitsLookedAt /\ Answered) =>
              (response.statusCode = 208 /\ ~response.has_body)
    /\ (Fraction /\ ~MetricGiven /\ Parsed) =>
         tool.overall_length = WrittenOAL
    /\ (~Fraction /\ ~MetricGiven /\ Parsed) =>
         tool.overall_length =
           IF WrittenOAL > MM_CUTOFF THEN RoundDiv(WrittenOAL * 10, 254) ELSE WrittenOAL

\* "1/2X1X1/2X25 SQ EM" without a unit: answered as a tool of 25 inches
C17_Witness ==
  /\ Succeeded /\ Fraction /\ ~MetricGiven
  /\ WrittenOAL > MM_CUTOFF
  /\ response.body.OAL = WrittenOAL /\ response.body.Diameter = 5000

\* the numbers of the request that parse_description reads as diameter,
\* length of cut, shank diameter and overall length
WrittenDims ==
  [cut_diameter |-> EvalNum(Dimensions[1]),
   length_of_cut |-> EvalNum(Dimensions[2]),
   shank_diameter |-> EvalNum(Dimensions[Len(Dimensions) - 1]),
   overall_length |-> WrittenOAL]

FourNumbers == DimTokens = {} \/ XCnt \in {3, 4}

AfterParse == {"family", "prep", "fluting", "respond"}

\* C18: when parse_description returns 900 every non-zero length of the
\* record is the value of the request divided by 25.4 and rounded to 4
\* decimals if millimeters are given or inferred, and the value of the
\* request itself if not; no later step of the request changes these
\* fields, and parse_description is called once, also with PREP.
C18_ConvertedOnce ==
  [][ /\ (pc = "parse" /\ Parsed') =>
           /\ FourNumbers =>
                \A f \in {"cut_diameter", "shank_diameter", "overall_length"} :
                  tool'[f] = Held(WrittenDims[f])
           /\ (FourNumbers /\ WrittenDims.length_of_cut # 0) =>
                tool'.length_of_cut = Held(WrittenDims.length_of_cut)
           /\ \A f \in {"tip_diameter", "tapered_neck_diameter"} :
                tool'[f] = Held(tool[f])
      /\ pc \in AfterParse =>
           /\ \A f \in NumericAttrs \ {"tip_diameter"} : tool'[f] = tool[f]
           /\ pc # "prep" => tool'.tip_diameter = tool.tip_diameter
           /\ \A i \in DOMAIN stages' : stages'[i].fn = "parse_description" => i = 1
    ]_vars

\* "6X13X6X19 SQ EM" with MM and PREP: every stage is called and the answer
\* is in inches
C18_Witness ==
  /\ Succeeded /\ PrepRequested /\ HasArg("MM")
  /\ Len(stages) = 4 /\ stages[3].fn = "calc_prep_time"
  /\ response.body.OAL = 7480 /\ response.body.Diameter = 2362
  /\ response.body.LOC = 5118

\* the row has a result whatever was calculated before it
Calculable(row) ==
  /\ row.Diameter # NaN
  /\ calc_cycle_time(gui.form, <<"SQ", "EM">>, row.Diameter, row.Length_of_Cut,
                     row.Flute_Count, row.Tool_Type).found

\* the workbook, the sheet "Test" or the sheet of the row at hand is missing
ReferenceFailure ==
  \/ ~gui.workbook.exists
  \/ gui.mass_calc_df = <<>>
  \/ /\ gui.pc = "returned"
     /\ LET t == gui.mass_calc_df[gui.index].Tool_Type
        IN /\ t \in main_tool_types_list
           /\ (IF t \in em_list THEN <<"SQ", "EM">> ELSE t) \notin gui.workbook.sheets

\* C19: a batch ends before its last row only when reference data are
\* missing; otherwise every row is taken in turn, a row that cannot be
\* classified or calculated is left out, and every row that can is recorded
\* with its own result, whatever the rows before it were.
C19_RowsIndependent ==
  /\ gui.pc \in {"returned", "raised"} => ReferenceFailure
  /\ gui.pc \in {"loop", "stored", "not stored"} =>
       /\ DOMAIN gui.result_df \subseteq 1..(gui.index - 1)
       /\ \A i \in 1..(gui.index - 1) :
            /\ i \in DOMAIN gui.result_df <=> Calculable(gui.mass_calc_df[i])
            /\ i \in DOMAIN gui.result_df =>
                 /\ gui.result_df[i].row = gui.mass_calc_df[i]
                 /\ gui.result_df[i].result =
                      calc_cycle_time(gui.form, <<"SQ", "EM">>, gui.mass_calc_df[i].Diameter,
                                      gui.mass_calc_df[i].Length_of_Cut,
                                      gui.mass_calc_df[i].Flute_Count,
                                      gui.mass_calc_df[i].Tool_Type)

\* what calc_prep_time returns for the tool at hand, single and double ended
SingleEnded == calc_prep_time(tool, FALSE)

DoubleEnded == calc_prep_time(tool, TRUE)

\* C20: for the tool that get_tool_detail hands to calc_prep_time, the prep
\* time computed with double_end is twice the prep time computed without
\* it, to within the last decimal of the rounding to 3 decimals.
C20_DoubleEndTwice ==
  (pc = "prep" /\ ~SingleEnded.raised /\ SingleEnded.status_code = 900) =>
    /\ DoubleEnded.status_code = 900
    /\ DoubleEnded.tool.prep_type = SingleEnded.tool.prep_type
    /\ DoubleEnded.tool.prep_cycle_time - 2 * SingleEnded.tool.prep_cycle_time \in -10..10

\* calc_prep_time returned 900 for this request
Prepped ==
  \E i \in DOMAIN stages : stages[i].fn = "calc_prep_time" /\ stages[i].status_code = 900

\* the prep operations of the report, without its closing "Robot Time"
Operations == SubSeq(tool.prep_type, 1, Len(tool.prep_type) - 1)

\* 20 seconds, 5 for backtaper, for a time above 0 and below 1.11 minutes
Surcharge(op) ==
  IF op[2] > 0 /\ op[2] < 11100
  THEN (IF op[1] = "Backtaper Prep" THEN 833 ELSE 3333)
  ELSE 0

\* C21: the prep time of a single-ended tool is the sum over its prep
\* operations of the time of the operation (increased by 10%) plus the
\* surcharge of that operation, each surcharge counted once; the roundings
\* to 3 decimals move the total by at most 0.0005 per operation and once
\* more at the end.
C21_PrepTimeIsSum ==
  (Prepped /\ ~feature.double_end /\ tool.prep_type # <<>>) =>
    LET sum == SumSeq([i \in DOMAIN Operations |->
                         Operations[i][2] + Surcharge(Operations[i])])
        slack == 5 * (Len(Operations) + 1)
    IN tool.prep_cycle_time - sum \in (-slack)..slack

\* the report of calc_prep_time has a point prep
PointPrepDone == \E i \in DOMAIN tool.prep_type : tool.prep_type[i][1] = "Point Prep"

\* the point prep of the tool handed to calc_prep_time, and what it lacks
PointOfTool == PrepPoint(tool, PrepPlan(tool))

GeometryMissing ==
  \/ PointOfTool.main_angle = 0
  \/ tool.tool_family = "BUR" /\ PointOfTool.tip_diameter = 0

\* C22: a point prep is calculated only for a tool with a main angle (and,
\* in the BUR family, a tip diameter); a tool whose point prep is gated on
\* and that lacks one of them is refused by calc_prep_time with 404, unless
\* an earlier check of calc_prep_time (206, 211) has refused it.
C22_PointPrepNeedsGeometry ==
  /\ (Prepped /\ PointPrepDone) =>
       /\ tool.main_angle # 0
       /\ tool.tool_family = "BUR" => tool.tip_diameter # 0
  /\ (pc = "prep" /\ PointOfTool.point_prep /\ GeometryMissing) =>
       calc_prep_time(tool, feature.double_end).status_code \in {404, 206, 211}

(***************************************************************************)
(* The endmill / router / drill branch, read off a detailed answer.        *)
(***************************************************************************)
\* a detailed answer of the branch for a tool without the words that replace
\* the length of cut or a component (MINI-MILL, STAGGERED, SPADE) and with a
\* diameter the feedrates are not scaled for
PlainEmAnswer ==
  /\ Succeeded /\ feature.detail /\ tool.reference_family # "BUR"
  /\ \A w \in {"MINI-MILL", "STAGGERED", "SPADE"} : ~InDesc(w, tool.formatted_description)
  /\ tool.cut_diameter >= 600

EffectiveCount == IF fl_cnt[1] = 2 THEN 4 ELSE fl_cnt[1]

\* length / rate x 2.5 x count, in 1/10000 minute
BaseComponent(length, rate, count) == MulDiv(length * count, 25000, rate)

\* the fluting time and the OD time (before its multiplier of 1, 2 or 3;
\* none for a drill) are LOC / feedrate x 2.5 x effective flute count
FlutingAndOdEffective ==
  /\ detail.parts.calc_fl_time =
       BaseComponent(tool.length_of_cut, row_values.fluting_fr, EffectiveCount)
  /\ detail.parts.calc_od_time \in
       {k * BaseComponent(tool.length_of_cut, row_values.od_fr, EffectiveCount) : k \in 0..3}

\* the end and gash time, where they contribute, are radius / rate x 2.5 x count
EndAndGashWith(count) ==
  /\ detail.parts.calc_end_time # 0 =>
       detail.parts.calc_end_time =
         BaseComponent(tool.cut_diameter, 2 * row_values.end_ct, count)
  /\ detail.parts.calc_gash_time # 0 =>
       detail.parts.calc_gash_time =
         BaseComponent(tool.cut_diameter, 2 * row_values.end_gash_ct, count)

TertRequested == \E i \in DOMAIN event.args : event.args[i] = "TERT"

\* the OD time before its multiplier
BaseOd == BaseComponent(tool.length_of_cut, row_values.od_fr, EffectiveCount)

\* C24: the OD time is its base value times exactly one of 1, 2, 3: times 2
\* with a secondary OD angle and no TERT in effect, times 3 exactly when TERT
\* was requested and the tool has a secondary OD angle, times 1 without a
\* secondary OD angle, where a TERT request has no effect.
C24_OdMultiplier ==
  (PlainEmAnswer /\ detail.parts.calc_od_time # 0) =>
    LET sec == detail.parts.sec_od_angle
        od == detail.parts.calc_od_time
    IN /\ detail.parts.tert_od_angle <=> (TertRequested /\ sec)
       /\ od = BaseOd * (IF ~sec THEN 1 ELSE IF TertRequested THEN 3 ELSE 2)

\* TERT was requested for a tool with a secondary OD angle
C24_Witness ==
  /\ PlainEmAnswer /\ TertRequested /\ detail.parts.sec_od_angle
  /\ detail.parts.calc_od_time = 3 * BaseOd /\ BaseOd > 0

\* a detailed answer for a MINI-MILL
MiniMillAnswer ==
  /\ Succeeded /\ feature.detail /\ tool.reference_family # "BUR"
  /\ InDesc("MINI-MILL", tool.formatted_description)

\* the time of the report without a penalty: (sum of the components) x
\* increase + seconds per flute x flutes, doubled for a double end
UnpenalisedTime ==
  LET p == detail.parts
      t == Mul(p.calc_fl_time + p.calc_od_time + p.calc_end_time + p.calc_gash_time
                 + p.end_split_time, detail.inc_percentage) + p.sec_inc * fl_cnt[1]
  IN IF feature.double_end THEN 2 * t ELSE t

\* cut diameter / LOC of the request is above 0.5
StubbyAsRequested == 2 * tool.cut_diameter > tool.length_of_cut

\* C25: for a MINI-MILL whose cut diameter / LOC, as given in the request, is
\* above 0.5 the reported time is the unpenalised time times a further factor
\* (not the unpenalised time itself); for 0.5 or below it is the unpenalised
\* time.
C25_MiniMillPenalty ==
  MiniMillAnswer =>
    /\ StubbyAsRequested => detail.time # Round3(UnpenalisedTime)
    /\ ~StubbyAsRequested => detail.time = Round3(UnpenalisedTime)

(***************************************************************************)
(* A bur that is treated like an endmill.                                  *)
(***************************************************************************)
\* a detailed answer for a bur of cut type FM or NX, other than a tire bur
\* and the Muraki programs, whose rows and split time are adjusted
FmBurAnswer ==
  /\ Succeeded /\ feature.detail
  /\ tool.tool_family = "BUR" /\ feature.bur_cut \in {"FM", "NX"}
  /\ ~PhraseIn(<<"TIRE", "BUR">>, tool.bur_description)
  /\ ~MurakiFM(tool.part_number)

SumOfParts ==
  detail.parts.calc_fl_time + detail.parts.calc_od_time + detail.parts.calc_end_time
    + detail.parts.calc_gash_time + detail.parts.end_split_time

\* C26 as stated: the components of such a bur are those of the endmill
\* branch for the same row, dimensions and flute count: length / feedrate x
\* 2.5 x effective flute count, the increase applied to the sum.
C26_SameAsEndmill ==
  FmBurAnswer =>
    /\ FlutingAndOdEffective
    /\ EndAndGashWith(fl_cnt[1])
    /\ detail.time = Round3(UnpenalisedTime)

\* length / rate x flutes x increase, of the report
TimesFlutes(length, rate) ==
  Mul(MulDiv(length * fl_cnt[1], Scale, rate), detail.inc_percentage)

\* C26: for a bur of cut type FM or NX the fluting and OD time are LOC /
\* feedrate x flute count x increase, the end and gash time radius / rate x
\* flute count x increase (no constant 2.5, the flute count itself also for
\* two flutes, no multiplier for OD angles), the split time is the one of the
\* rate row, and the time is the plain sum, doubled for a double end.
C26_BurLikeEndmill ==
  (FmBurAnswer /\ row_values.fluting_fr # 0 /\ row_values.od_fr # 0
     /\ row_values.end_ct # 0 /\ row_values.end_gash_ct # 0) =>
    /\ detail.parts.calc_fl_time = TimesFlutes(tool.length_of_cut, row_values.fluting_fr)
    /\ detail.parts.calc_od_time = TimesFlutes(tool.length_of_cut, row_values.od_fr)
    /\ detail.parts.calc_end_time = TimesFlutes(tool.cut_diameter, 2 * row_values.end_ct)
    /\ detail.parts.calc_gash_time = TimesFlutes(tool.cut_diameter, 2 * row_values.end_gash_ct)
    /\ detail.parts.end_split_time = row_values.end_split_ct
    /\ detail.time = Round3(IF feature.double_end THEN 2 * SumOfParts ELSE SumOfParts)

\* a two-flute FM bur with an increase and a split time
C26_Witness ==
  /\ FmBurAnswer /\ fl_cnt[1] = 2
  /\ detail.inc_percentage > Scale /\ detail.parts.end_split_time > 0
  /\ detail.parts.calc_fl_time > 0 /\ detail.parts.calc_gash_time > 0

\* a detailed answer of the endmill / router / drill branch
EmAnswer == Succeeded /\ feature.detail /\ tool.reference_family # "BUR"

RouterWithEndTime ==
  /\ tool.tool_family \in ROUTER_FAM
  /\ \E w \in HAS_END_TIME : InSplit(w, tool.tool_description)

ReamerWithEndcut ==
  /\ InDesc("REAMER", tool.formatted_description)
  /\ InDesc("ENDCUT", tool.formatted_description)

EndOrGash == detail.parts.calc_end_time # 0 \/ detail.parts.calc_gash_time # 0

\* C27: in the endmill / router / drill branch an end or gash time is part of
\* the time only for a router whose description has a has-end-time word or
\* for a REAMER with ENDCUT; for every EM or DRILL tool that is not such a
\* reamer both are zero, and the time is made of the other components.
C27_EndTimeFlag ==
  EmAnswer =>
    /\ EndOrGash => (RouterWithEndTime \/ ReamerWithEndcut)
    /\ (tool.tool_family \in {"EM", "DRILL"} /\ ~ReamerWithEndcut) =>
         /\ ~EndOrGash
         /\ ~InDesc("MINI-MILL", tool.formatted_description) =>
              detail.time =
                Round3((IF feature.double_end THEN 2 ELSE 1)
                         * (Mul(detail.parts.calc_fl_time + detail.parts.calc_od_time
                                  + detail.parts.end_split_time, detail.inc_percentage)
                              + detail.parts.sec_inc * fl_cnt[1]))

\* a REAMER with ENDCUT, whose end and gash time count
C27_Witness ==
  /\ EmAnswer /\ ReamerWithEndcut /\ tool.tool_family = "DRILL"
  /\ detail.parts.calc_end_time > 0 /\ detail.parts.calc_gash_time > 0

(***************************************************************************)
(* The split of the endmill / router / drill branch.                       *)
(***************************************************************************)
NotchRequested == \E i \in DOMAIN event.args : event.args[i] = "NOTCH"

\* the entries of the shape table whose word occurs in the base description
ShapeHits ==
  {i \in DOMAIN EM_MAP(tool.formatted_description) :
     InDesc(EM_MAP(tool.formatted_description)[i].word, tool.formatted_description)}

LastShape ==
  EM_MAP(tool.formatted_description)[CHOOSE i \in ShapeHits : \A j \in ShapeHits : j <= i]

\* the flute count is in the split list of the last matching shape
InShapeList == fl_cnt[1] \in SPLIT_DICT(LastShape.split_key)

\* the split time is the one of the row with a split, zero without
SplitTimeFollows ==
  detail.parts.end_split_time = (IF detail.parts.split THEN row_values.end_split_ct ELSE 0)

\* C28 as stated: with a shape word in the base description the split is
\* set solely by the flute count being in the list of the last matching
\* shape; NOTCH decides only without a shape word; a router has NOTCH
\* cleared; a DRILL has no split.
C28_NotchOnlyWithoutShape ==
  EmAnswer =>
    /\ SplitTimeFollows
    /\ ShapeHits # {} => (detail.parts.split <=> InShapeList)
    /\ (ShapeHits = {} /\ detail.parts.split) => NotchRequested
    /\ tool.tool_family \in ROUTER_FAM => ~feature.notch
    /\ tool.tool_family = "DRILL" => ~detail.parts.split

\* a series of PERF_LIST in the description that clears the split: a V series
\* on a description that starts with SQ or CR, AX, F45
PerfClearsSplit ==
  /\ feature.performance
  /\ \E i \in DOMAIN PERF_LIST :
       /\ InDesc(PERF_LIST[i], tool.formatted_description)
       /\ \/ /\ StartsWithV(PERF_LIST[i])
             /\ \/ FirstIs("SQ", tool.formatted_description)
                \/ FirstIs("CR", tool.formatted_description)
          \/ PERF_LIST[i] \in {"AX", "F45"}

SplitCleared ==
  \/ tool.tool_family = "DRILL" /\ ~InDesc("REAMER", tool.formatted_description)
  \/ InDesc("STAGGERED", tool.formatted_description)
  \/ PerfClearsSplit

\* C28: NOTCH never decides the split of a tool with a shape word in its base
\* description: there the split is off when a series, STAGGERED or the DRILL
\* family clears it, and otherwise follows the flute count being in the list
\* of the last matching shape.  Without a shape word the split is the NOTCH
\* option, which is cleared for a router; a DRILL whose description has no
\* REAMER has no split.
C28_SplitDecision ==
  EmAnswer =>
    /\ SplitTimeFollows
    /\ tool.tool_family \in ROUTER_FAM => ~feature.notch
    /\ detail.parts.split <=>
         /\ ~SplitCleared
         /\ IF ShapeHits # {} THEN InShapeList
            ELSE NotchRequested /\ tool.tool_family \notin ROUTER_FAM

\* NOTCH was requested for a tool with a shape word whose flute count is not
\* in the list: no split
C28_Witness ==
  /\ EmAnswer /\ NotchRequested /\ ShapeHits # {} /\ ~InShapeList
  /\ ~detail.parts.split /\ detail.parts.end_split_time = 0

(***************************************************************************)
(* The preps calc_prep_time turns on.                                      *)
(***************************************************************************)
\* the report of calc_prep_time names the prep
Reported(name) == \E i \in DOMAIN tool.prep_type : tool.prep_type[i][1] = name

PlanOfTool == PrepPlan(tool)

\* C29: calc_prep_time never turns on front reduction together with shank
\* reduction, nor bumping together with cut off, and never shank reduction
\* for a tool of BRAZED material; its report does not name such a pair.
C29_PrepFlagsExclusive ==
  /\ pc = "prep" =>
       /\ ~(PlanOfTool.front_reduction_prep /\ PlanOfTool.shank_reduction_prep)
       /\ ~(PlanOfTool.bumping_prep /\ PlanOfTool.cut_off_prep)
       /\ tool.material = "BRAZED" => ~PlanOfTool.shank_reduction_prep
  /\ Prepped =>
       /\ ~(Reported("Front Reduction Prep") /\ Reported("Shank Reduction Prep"))
       /\ ~(Reported("Bumping Prep") /\ Reported("Cut Off Prep"))
       /\ tool.material = "BRAZED" => ~Reported("Shank Reduction Prep")

\* a brazed tool whose shank is thinner than its cut has been prepared
C29_Witness ==
  /\ Prepped /\ tool.material = "BRAZED" /\ tool.shank_diameter < tool.cut_diameter
  /\ ~Reported("Shank Reduction Prep")

(***************************************************************************)
(* The defects of a request, read off the event, and the code reported.    *)
(***************************************************************************)
\* the description parse_description works on, and its words without the neck
Normalized == NormalizeDescription(event.Description)

SplitOfEvent == RemoveAt(Normalized, NeckIndex(Normalized))

\* the request reaches the keyword arguments of get_tool_detail
Entered == event.kwargs # NotAMapping /\ EntryCode(event) = 900

\* a recognised keyword argument whose value float() refuses
CoercionDefect ==
  \E i \in DOMAIN event.kwargs :
    /\ KwAttr(event.kwargs[i].k) \in {"tip_diameter", "tapered_neck_diameter"}
    /\ ~(Len(event.kwargs[i].segs) = 1 /\ event.kwargs[i].segs[1].form = "dec")

FluteDefect == LastFluteToken(SplitOfEvent, event.FluteCount) = <<>>

\* the dimension text: the first one of the description, or the four fields
SegsOfEvent ==
  LET dimension_list == SelectSeq(SplitOfEvent, LAMBDA t : t.k = "dim") IN
  IF dimension_list = <<>>
  THEN <<ZeroIfEmpty(event.Diameter), ZeroIfEmpty(event.LOC),
         ZeroIfEmpty(event.ShankDiameter), ZeroIfEmpty(event.OAL)>>
  ELSE dimension_list[1].segs

DimensionDefect == ~DimsEvalOk(SegsOfEvent) \/ Len(SegsOfEvent) \notin {3, 4, 5}

FractionMmDefect ==
  /\ \E i \in DOMAIN SegsOfEvent : HasSlash(SegsOfEvent[i])
  /\ \/ \E i \in DOMAIN event.args : event.args[i] = "MM"
     \/ (InSplit("CR", SplitOfEvent) /\ CrMatch(Normalized).mm)

BaseDefect == BaseOf(SplitOfEvent) \notin tool_types_list

CountersinkDefect ==
  /\ InDesc("COUNTERSINK", FormattedOf(SplitOfEvent))
  /\ MainAngleOf(SplitOfEvent) = 0

FamilyDefect ==
  get_family(tool_types, BaseOf(SplitOfEvent), Normalized).status_code \in {301, 302}

\* the stage that failed, "get_tool_detail" for a failure between the stages
FailedIn ==
  IF stages # <<>> /\ LastStage.status_code # 900 THEN LastStage.fn ELSE "get_tool_detail"

Refused(code, fn) == Answered /\ Entered /\ response.statusCode = code /\ FailedIn = fn

\* C30: the code reported for a request with several defects follows the
\* order of the checks: no code is reported while a defect that is checked
\* earlier is present.  A keyword coercion failure (200) is reported with no
\* stage called; in parse_description 307 comes before 205/206, those before
\* 208, that before 104, that before 308; a failure of get_family (301/302)
\* comes before the 206 of get_tool_detail.
C30_ErrorPrecedence ==
  /\ (Answered /\ Entered /\ CoercionDefect) => response.statusCode = 200 /\ stages = <<>>
  /\ Refused(307, "parse_description") => ~CoercionDefect
  /\ (Refused(205, "parse_description")
        \/ (Refused(206, "parse_description") /\ DimensionDefect)) =>
       ~CoercionDefect /\ ~FluteDefect
  /\ Refused(208, "parse_description") =>
       ~CoercionDefect /\ ~FluteDefect /\ ~DimensionDefect /\ FractionMmDefect
  /\ Refused(104, "parse_description") =>
       ~CoercionDefect /\ ~FluteDefect /\ ~DimensionDefect /\ ~FractionMmDefect
  /\ Refused(308, "parse_description") =>
       /\ ~CoercionDefect /\ ~FluteDefect /\ ~DimensionDefect /\ ~FractionMmDefect
       /\ ~BaseDefect /\ CountersinkDefect
  /\ Refused(206, "get_tool_detail") => ~FamilyDefect
  /\ (Answered /\ Entered /\ stages # <<>> /\ FailedIn = "get_family") =>
       FamilyDefect /\ response.statusCode \in {301, 302}

\* a request with two defects is answered with the one checked first
C30_Witness ==
  /\ Refused(104, "parse_description") /\ BaseDefect /\ CountersinkDefect

====
